---- MODULE Spec2Model ----
(***************************************************************************)
(* Model of django-modeltranslation: the translation descriptor installed  *)
(* on a registered model (fields.py), the translator registry and the      *)
(* pre_save / post_save language pinning (translator.py).                  *)
(*                                                                         *)
(* Python values are modelled as strings; None is the string NoneVal.      *)
(***************************************************************************)
EXTENDS Integers, Sequences, FiniteSets, TLC

VARIABLES
    lang,        \* the active language of the thread (django.utils.translation)
    objs,        \* in-memory model instances: __dict__ slots and _current_lang
    db,          \* the stored rows: a function on the instances saved so far
    pc,          \* position inside Model.save: "idle", "pre_save", "persisted"
    saving,      \* the instance whose save is in progress
    callerLang,  \* history: the language that was active when save was invoked
    last,        \* history: the operation performed by the last step
    rt,          \* history: progress of a write / save / reload round trip
    writes,      \* number of attribute writes performed so far
    kls,         \* the model class the instances n and m belong to
    registry,    \* Translator._registry: model -> translation options class
    meta,        \* model._meta: the field names of every model, in field order
    clsattrs,    \* the class attributes of every model (hasattr / setattr)
    hooks,       \* the senders pre_save / post_save are connected for
    optattrs,    \* attributes set on the options classes by register
    regorder,    \* history: the registered models, in the order of registration
    calls        \* number of calls made to the translator so far

instvars == <<lang, objs, db, pc, saving, callerLang, rt, writes, kls>>
regvars == <<registry, meta, clsattrs, hooks, optattrs, regorder, calls>>
vars == <<lang, objs, db, pc, saving, callerLang, last, rt, writes, kls,
          registry, meta, clsattrs, hooks, optattrs, regorder, calls>>

-----------------------------------------------------------------------------
(* Settings and test fixtures *)

LANGUAGES == <<"de", "en">>
DEFAULT_LANGUAGE == "de"
AVAILABLE_LANGUAGES == {LANGUAGES[k] : k \in 1..Len(LANGUAGES)}

NoneVal == "<None>"
Sorry == "Sorry, translation is not available."

\* The text attributes of TestModel / FallbackTestModel / FallbackTestModel2
Attrs == {"title", "text"}

\* Default of a field on a freshly constructed instance:
\* title is a plain CharField, text is a TextField(null=True)
FieldDefault(a) == IF a = "title" THEN "" ELSE NoneVal

\* The instance that is written, saved and reloaded, and the instances of the
\* specification of attribute access on two objects
Instances == {"n"}
TwoInstances == {"n", "m"}
WriteValues == {NoneVal, "", "a", "b"}
MaxWrites == 2
MaxCalls == 3

NoLang == "<unset>"
NoInst == "<none>"

\* Python truthiness of a text value
Truthy(v) == v \notin {NoneVal, ""}

-----------------------------------------------------------------------------
(* modeltranslation.utils *)

get_language == lang

build_localized_fieldname(field_name, l) == field_name \o "_" \o l

-----------------------------------------------------------------------------
(* tests/models.py and tests/translation.py *)

Models == {"TestModel", "FallbackTestModel", "FallbackTestModel2",
           "FileFieldsModel", "MultitableModelA", "MultitableModelB",
           "MultitableModelC", "MultitableModelD", "TwoParentsModel", "User"}

\* The fields a model declares itself, in declaration order (url and email are
\* CharField subclasses and behave as title does). TwoParentsModel declares
\* none; User is django.contrib.auth's, with two of its fields.
ModelFields(model) ==
    CASE model \in {"TestModel", "FallbackTestModel", "FallbackTestModel2"} ->
             << [name |-> "title", kind |-> "CharField"],
                [name |-> "text", kind |-> "TextField"] >>
      [] model = "FileFieldsModel" ->
             << [name |-> "title", kind |-> "CharField"],
                [name |-> "file", kind |-> "FileField"],
                [name |-> "file2", kind |-> "FileField"],
                [name |-> "image", kind |-> "ImageField"] >>
      [] model = "MultitableModelA" ->
             << [name |-> "titlea", kind |-> "CharField"] >>
      [] model = "MultitableModelB" ->
             << [name |-> "titleb", kind |-> "CharField"] >>
      [] model = "MultitableModelC" ->
             << [name |-> "titlec", kind |-> "CharField"] >>
      [] model = "MultitableModelD" ->
             << [name |-> "titled", kind |-> "CharField"] >>
      [] model = "User" ->
             << [name |-> "username", kind |-> "CharField"],
                [name |-> "is_active", kind |-> "BooleanField"] >>
      [] OTHER -> << >>

\* model._meta.parents.keys(): the concrete models the class statement of the
\* model names as its bases, in that order
Parents(model) ==
    CASE model = "MultitableModelB" -> <<"MultitableModelA">>
      [] model = "MultitableModelC" -> <<"MultitableModelB">>
      [] model = "MultitableModelD" -> <<"MultitableModelB">>
      [] model = "TwoParentsModel" -> <<"TestModel", "FallbackTestModel">>
      [] OTHER -> << >>

\* The model and the classes it inherits from, at every level
RECURSIVE Mro(_)
Mro(model) ==
    {model} \cup UNION {Mro(Parents(model)[k]) : k \in 1..Len(Parents(model))}

\* model._meta.get_field(field_name): a field of the model or of an ancestor
FieldKind(model, field_name) ==
    LET decl == UNION {{ModelFields(c)[k] : k \in 1..Len(ModelFields(c))} :
                          c \in Mro(model)}
    IN  (CHOOSE f \in decl : f.name = field_name).kind

\* The options classes: their declared fields and fallback_values
TestModelOptionsClasses ==
    {"TestTranslationOptions", "TestTranslationOptionsFallback",
     "TestTranslationOptionsFallback2", "FallbackStringOptions"}

OptionsClasses ==
    TestModelOptionsClasses \cup
    {"TestTranslationOptionsModelFileFields",
     "TranslationOptionsTestModelMultitableA",
     "TranslationOptionsTestModelMultitableB",
     "TranslationOptionsTestModelMultitableC",
     "NoFieldsOptions", "UserOptionsKindFirst", "UserOptionsKindLast"}

OptFields(opts) ==
    CASE opts \in TestModelOptionsClasses -> <<"title", "text">>
      [] opts = "TestTranslationOptionsModelFileFields" ->
             <<"title", "file", "image">>
      [] opts = "TranslationOptionsTestModelMultitableA" -> <<"titlea">>
      [] opts = "TranslationOptionsTestModelMultitableB" -> <<"titleb">>
      [] opts = "TranslationOptionsTestModelMultitableC" -> <<"titlec">>
      [] opts = "UserOptionsKindFirst" -> <<"is_active", "username">>
      [] opts = "UserOptionsKindLast" -> <<"username", "is_active">>
      [] OTHER -> << >>

OptFallbackValues(opts) ==
    CASE opts = "TestTranslationOptionsFallback" -> [kind |-> "str", val |-> ""]
      [] opts = "TestTranslationOptionsFallback2" ->
             [kind |-> "dict", map |-> [text |-> Sorry]]
      [] opts = "FallbackStringOptions" -> [kind |-> "str", val |-> "n/a"]
      [] OTHER -> [kind |-> "absent"]

-----------------------------------------------------------------------------
(* fields.py: the translation field factory *)

SUPPORTED_FIELDS == {"CharField", "TextField", "FileField", "ImageField"}
CUSTOM_FIELDS == {}

NoExc == "<no exception>"
NotIn == "<not registered>"

\* A variant of create_translation_field that copies a field of any kind
create_translation_field_any_kind(model, field_name, l) ==
    [exc |-> NoExc, kind |-> FieldKind(model, field_name),
     name |-> build_localized_fieldname(field_name, l)]

\* The result of create_translation_field: the exception it raises, or the
\* translation field (a copy of the translated field, renamed for the language)
create_translation_field(model, field_name, l) ==
    LET cls_name == FieldKind(model, field_name) IN
    IF ~(cls_name \in SUPPORTED_FIELDS \/ cls_name \in CUSTOM_FIELDS)
    THEN [exc |-> "ImproperlyConfigured"]
    ELSE [exc |-> NoExc, kind |-> cls_name,
          name |-> build_localized_fieldname(field_name, l)]

-----------------------------------------------------------------------------
(* translator.py: the registry *)

\* The registration state the translator reads and writes, as one record
RegState ==
    [registry |-> registry, meta |-> meta, clsattrs |-> clsattrs,
     hooks |-> hooks, optattrs |-> optattrs, order |-> regorder]

\* Before translation.py runs: nothing registered, the models as declared.
\* File and image fields put their descriptor on the class, text fields do not.
EmptyRegState ==
    [registry |-> [m \in Models |-> NotIn],
     meta |-> [m \in Models |->
                  [k \in 1..Len(ModelFields(m)) |-> ModelFields(m)[k].name]],
     clsattrs |-> [m \in Models |->
                  [a \in {ModelFields(m)[k].name : k \in
                            {j \in 1..Len(ModelFields(m)) :
                               ModelFields(m)[j].kind \in
                                   {"FileField", "ImageField"}}}
                     |-> [cls |-> IF FieldKind(m, a) = "FileField"
                                  THEN "FileDescriptor"
                                  ELSE "ImageFileDescriptor"]]],
     hooks |-> [pre_save |-> {}, post_save |-> {}],
     optattrs |-> [o \in OptionsClasses |-> << >>],
     order |-> << >>]

NoAttr == [cls |-> "<no attribute>"]

\* The class attribute the name resolves to: that of the class itself, or
\* else of the first base that has one
RECURSIVE ClassLookup(_, _, _)
ClassLookup(S, model, name) ==
    IF name \in DOMAIN S.clsattrs[model] THEN S.clsattrs[model][name]
    ELSE
      LET found == {k \in 1..Len(Parents(model)) :
                      ClassLookup(S, Parents(model)[k], name).cls # NoAttr.cls}
      IN  IF found = {} THEN NoAttr
          ELSE ClassLookup(S, Parents(model)[CHOOSE k \in found :
                                                \A k2 \in found : k <= k2],
                           name)

\* A variant of __get__ without an instance that hands out the descriptor
descriptor_get_on_class_self(descriptor) ==
    IF descriptor.cls = "TranslationDescriptor"
    THEN [exc |-> NoExc, val |-> descriptor]
    ELSE [exc |-> "AttributeError", val |-> NoAttr]

\* descriptor.__get__(None, owner): TranslationDescriptor raises ValueError;
\* TranslationFileDescriptor and TranslationImageDescriptor raise
\* AttributeError, as Django's FileDescriptor does
descriptor_get_on_class(descriptor) ==
    IF descriptor.cls = "TranslationDescriptor"
    THEN [exc |-> "ValueError", val |-> NoAttr]
    ELSE [exc |-> "AttributeError", val |-> NoAttr]

\* getattr(model, name) on the model class
getattr_on_class(S, model, name) ==
    LET descriptor == ClassLookup(S, model, name) IN
    IF descriptor.cls = NoAttr.cls
    THEN [exc |-> "AttributeError", val |-> NoAttr]
    ELSE descriptor_get_on_class(descriptor)

\* hasattr(model, name): false when getattr raises, whatever the exception
hasattr(S, model, name) == getattr_on_class(S, model, name).exc = NoExc

\* setattr(model, name, value) on the model class
setattr(S, model, name, value) ==
    [S EXCEPT !.clsattrs[model] =
        [x \in DOMAIN S.clsattrs[model] \cup {name} |->
            IF x = name THEN value ELSE S.clsattrs[model][x]]]

\* model.add_to_class(name, field): the field joins model._meta and, for file
\* and image fields, its descriptor becomes a class attribute
add_to_class(S, model, name, field) ==
    LET S1 == [S EXCEPT !.meta[model] = Append(S.meta[model], name)] IN
    IF field.kind = "FileField"
    THEN setattr(S1, model, name, [cls |-> "FileDescriptor"])
    ELSE IF field.kind = "ImageField"
    THEN setattr(S1, model, name, [cls |-> "ImageFileDescriptor"])
    ELSE S1

\* The (field_name, language) pairs in the order add_localized_fields visits
FieldLangPairs(fields) ==
    [k \in 1..(Len(fields) * Len(LANGUAGES)) |->
        [field_name |-> fields[((k - 1) \div Len(LANGUAGES)) + 1],
         l |-> LANGUAGES[((k - 1) % Len(LANGUAGES)) + 1]]]

RECURSIVE add_localized_fields_loop(_, _, _, _)
add_localized_fields_loop(S, model, pairs, localized_fields) ==
    IF pairs = <<>>
    THEN [st |-> S, exc |-> NoExc, res |-> localized_fields]
    ELSE
      LET field_name == Head(pairs).field_name
          l == Head(pairs).l
          \* localized_fields[field_name] = list() at the first language
          lf == IF l = LANGUAGES[1]
                THEN [x \in DOMAIN localized_fields \cup {field_name} |->
                        IF x = field_name THEN <<>> ELSE localized_fields[x]]
                ELSE localized_fields
          translation_field == create_translation_field(model, field_name, l)
          localized_field_name == build_localized_fieldname(field_name, l)
      IN
      IF translation_field.exc # NoExc
      THEN [st |-> S, exc |-> translation_field.exc, res |-> lf]
      ELSE IF hasattr(S, model, localized_field_name)
      THEN [st |-> S, exc |-> "ValueError", res |-> lf]
      ELSE add_localized_fields_loop(
               add_to_class(S, model, localized_field_name, translation_field),
               model, Tail(pairs),
               [lf EXCEPT ![field_name] = Append(@, localized_field_name)])

\* A variant that takes the fields it added off the model again when it raises
add_localized_fields_rolled_back(S, model) ==
    LET r == add_localized_fields_loop(
                 S, model, FieldLangPairs(OptFields(S.registry[model])), << >>)
    IN  IF r.exc = NoExc THEN r ELSE [r EXCEPT !.st = S]

\* add_localized_fields(model): the options are looked up in the registry
add_localized_fields(S, model) ==
    add_localized_fields_loop(
        S, model, FieldLangPairs(OptFields(S.registry[model])), << >>)

\* A variant of the reverse dict that enters the first name of every list only
rev_dict_first_name(localized_fieldnames) ==
    LET names == {localized_fieldnames[o][1] : o \in DOMAIN localized_fieldnames}
    IN  [ln \in names |->
            CHOOSE orig_name \in DOMAIN localized_fieldnames :
                localized_fieldnames[orig_name][1] = ln]

\* The reverse dict register builds from localized_fieldnames
rev_dict(localized_fieldnames) ==
    LET names == UNION {{localized_fieldnames[o][k] :
                            k \in 1..Len(localized_fieldnames[o])} :
                        o \in DOMAIN localized_fieldnames}
    IN  [ln \in names |->
            CHOOSE orig_name \in DOMAIN localized_fieldnames :
                \E k \in 1..Len(localized_fieldnames[orig_name]) :
                    localized_fieldnames[orig_name][k] = ln]

\* The fallback value register hands to the descriptor of field_name
field_fallback_value(model_fallback_values, field_name) ==
    IF model_fallback_values.kind = "absent"
    THEN NoneVal
    ELSE IF model_fallback_values.kind = "dict"
    THEN IF field_name \in DOMAIN model_fallback_values.map
         THEN model_fallback_values.map[field_name]
         ELSE NoneVal
    ELSE model_fallback_values.val

\* The descriptor register installs for the field
descriptor_for(S, model, translation_opts, field_name) ==
    IF FieldKind(model, field_name) = "FileField"
    THEN [cls |-> "TranslationFileDescriptor"]
    ELSE IF FieldKind(model, field_name) = "ImageField"
    THEN [cls |-> "TranslationImageDescriptor"]
    ELSE [cls |-> "TranslationDescriptor",
          fallback_value |->
              field_fallback_value(OptFallbackValues(translation_opts),
                                   field_name)]

RECURSIVE install_descriptors(_, _, _, _)
install_descriptors(S, model, translation_opts, fields) ==
    IF fields = <<>> THEN S
    ELSE install_descriptors(
             setattr(S, model, Head(fields),
                     descriptor_for(S, model, translation_opts, Head(fields))),
             model, translation_opts, Tail(fields))

\* A variant of the loop body of register that does not look the model up
register_no_check(S, model, translation_opts) ==
    LET S1 == [S EXCEPT !.hooks.pre_save = @ \cup {model},
                        !.hooks.post_save = @ \cup {model},
                        !.registry[model] = translation_opts,
                        !.order = Append(@, model)]
        added == add_localized_fields(S1, model)
    IN
    IF added.exc # NoExc
    THEN [st |-> added.st, exc |-> added.exc]
    ELSE
      LET S2 == [added.st EXCEPT
                    !.optattrs[translation_opts] =
                        [localized_fieldnames |-> added.res,
                         localized_fieldnames_rev |-> rev_dict(added.res)]]
      IN  [st |-> install_descriptors(S2, model, translation_opts,
                                      OptFields(translation_opts)),
           exc |-> NoExc]

\* A variant of the loop body of register that takes the model out of the
\* registry and disconnects the handlers when the synthesis raises
register_undone_on_failure(S, model, translation_opts) ==
    IF S.registry[model] # NotIn
    THEN [st |-> S, exc |-> "AlreadyRegistered"]
    ELSE
      LET S1 == [S EXCEPT !.hooks.pre_save = @ \cup {model},
                          !.hooks.post_save = @ \cup {model},
                          !.registry[model] = translation_opts,
                          !.order = Append(@, model)]
          added == add_localized_fields(S1, model)
      IN
      IF added.exc # NoExc
      THEN [st |-> [added.st EXCEPT !.registry = S.registry,
                                    !.hooks = S.hooks,
                                    !.order = S.order],
            exc |-> added.exc]
      ELSE
        LET S2 == [added.st EXCEPT
                      !.optattrs[translation_opts] =
                          [localized_fieldnames |-> added.res,
                           localized_fieldnames_rev |-> rev_dict(added.res)]]
        IN  [st |-> install_descriptors(S2, model, translation_opts,
                                        OptFields(translation_opts)),
             exc |-> NoExc]

\* The body of the loop of Translator.register, for one model: the state it
\* leaves and what it raises
register(S, model, translation_opts) ==
    IF S.registry[model] # NotIn
    THEN [st |-> S, exc |-> "AlreadyRegistered"]
    ELSE
      LET S1 == [S EXCEPT !.hooks.pre_save = @ \cup {model},
                          !.hooks.post_save = @ \cup {model},
                          !.registry[model] = translation_opts,
                          !.order = Append(@, model)]
          added == add_localized_fields(S1, model)
      IN
      IF added.exc # NoExc
      THEN [st |-> added.st, exc |-> added.exc]
      ELSE
        LET S2 == [added.st EXCEPT
                      !.optattrs[translation_opts] =
                          [localized_fieldnames |-> added.res,
                           localized_fieldnames_rev |-> rev_dict(added.res)]]
        IN  [st |-> install_descriptors(S2, model, translation_opts,
                                        OptFields(translation_opts)),
             exc |-> NoExc]

\* Translator.register(model_or_iterable, translation_opts): the models are
\* registered in order and the first exception ends the call
RECURSIVE register_all(_, _, _)
register_all(S, models, translation_opts) ==
    IF models = <<>> THEN [st |-> S, exc |-> NoExc]
    ELSE LET r == register(S, Head(models), translation_opts) IN
         IF r.exc # NoExc THEN r
         ELSE register_all(r.st, Tail(models), translation_opts)

\* A variant of the loop body of unregister that empties the registry
unregister_clear(S, model) ==
    IF S.registry[model] = NotIn
    THEN [st |-> S, exc |-> "NotRegistered"]
    ELSE [st |-> [S EXCEPT !.registry = [m \in Models |-> NotIn],
                           !.order = << >>],
          exc |-> NoExc]

\* The body of the loop of Translator.unregister, for one model
unregister(S, model) ==
    IF S.registry[model] = NotIn
    THEN [st |-> S, exc |-> "NotRegistered"]
    ELSE [st |-> [S EXCEPT !.registry[model] = NotIn,
                           !.order = SelectSeq(@, LAMBDA m : m # model)],
          exc |-> NoExc]

\* Translator.unregister(model_or_iterable)
RECURSIVE unregister_all(_, _)
unregister_all(S, models) ==
    IF models = <<>> THEN [st |-> S, exc |-> NoExc]
    ELSE LET r == unregister(S, Head(models)) IN
         IF r.exc # NoExc THEN r
         ELSE unregister_all(r.st, Tail(models))

NoOptions == [name |-> "<no options>"]

\* What a caller sees of a registered options class: its declared fields
\* and, once register has set them, localized_fieldnames and its reverse
OptionsOf(S, translation_opts) ==
    LET declared == [name |-> translation_opts,
                     fields |-> {OptFields(translation_opts)[k] :
                                    k \in 1..Len(OptFields(translation_opts))}]
        attrs == S.optattrs[translation_opts]
    IN  [k \in DOMAIN declared \cup DOMAIN attrs |->
            IF k \in DOMAIN attrs THEN attrs[k] ELSE declared[k]]

\* A variant of dict.update that keeps the entries d already has
dict_update_keep(d, e) ==
    [k \in DOMAIN d \cup DOMAIN e |-> IF k \in DOMAIN d THEN d[k] ELSE e[k]]

\* dict.update: the entries of e replace those of d under the same key
dict_update(d, e) ==
    [k \in DOMAIN d \cup DOMAIN e |-> IF k \in DOMAIN e THEN e[k] ELSE d[k]]

\* What get_options_for_model has gathered before the first parent. The two
\* _from maps record, for every key, the parent whose entry the gathered dict
\* refers to: update stores a reference to the parent's value.
NothingGathered ==
    [exc |-> NoExc, fields |-> {},
     localized_fieldnames |-> << >>, localized_fieldnames_rev |-> << >>,
     localized_fieldnames_from |-> << >>,
     localized_fieldnames_rev_from |-> << >>]

\* The loop of get_options_for_model over model._meta.parents.keys(); reading
\* an attribute register never set on the options class raises AttributeError
RECURSIVE parents_loop(_, _, _)
parents_loop(S, parents, acc) ==
    IF parents = <<>> \/ acc.exc # NoExc THEN acc
    ELSE
      LET parent == Head(parents) IN
      IF S.registry[parent] = NotIn
      THEN parents_loop(S, Tail(parents), acc)
      ELSE
        LET trans_opts == OptionsOf(S, S.registry[parent]) IN
        IF "localized_fieldnames" \notin DOMAIN trans_opts
        THEN [acc EXCEPT !.exc = "AttributeError"]
        ELSE parents_loop(S, Tail(parents),
               [exc |-> NoExc,
                fields |-> acc.fields \cup trans_opts.fields,
                localized_fieldnames |->
                    dict_update(acc.localized_fieldnames,
                                trans_opts.localized_fieldnames),
                localized_fieldnames_rev |->
                    dict_update(acc.localized_fieldnames_rev,
                                trans_opts.localized_fieldnames_rev),
                localized_fieldnames_from |->
                    dict_update(acc.localized_fieldnames_from,
                        [k \in DOMAIN trans_opts.localized_fieldnames |->
                            parent]),
                localized_fieldnames_rev_from |->
                    dict_update(acc.localized_fieldnames_rev_from,
                        [k \in DOMAIN trans_opts.localized_fieldnames_rev |->
                            parent])])

\* The options class get_options_for_model builds with type()
BuiltOptions(model, acc) ==
    [name |-> model \o "Translation",
     fields |-> acc.fields,
     localized_fieldnames |-> acc.localized_fieldnames,
     localized_fieldnames_rev |-> acc.localized_fieldnames_rev,
     localized_fieldnames_from |-> acc.localized_fieldnames_from,
     localized_fieldnames_rev_from |-> acc.localized_fieldnames_rev_from]

\* A variant of get_options_for_model that stores the options it builds
get_options_for_model_cached(S, model) ==
    IF S.registry[model] # NotIn
    THEN [st |-> S, exc |-> NoExc, ret |-> OptionsOf(S, S.registry[model])]
    ELSE
      LET acc == parents_loop(S, Parents(model), NothingGathered) IN
      IF acc.exc # NoExc
      THEN [st |-> S, exc |-> acc.exc, ret |-> NoOptions]
      ELSE IF /\ acc.fields # {}
              /\ DOMAIN acc.localized_fieldnames # {}
              /\ DOMAIN acc.localized_fieldnames_rev # {}
      THEN [st |-> [S EXCEPT !.registry[model] =
                        S.registry[Head(Parents(model))]],
            exc |-> NoExc, ret |-> BuiltOptions(model, acc)]
      ELSE [st |-> S, exc |-> "NotRegistered", ret |-> NoOptions]

\* A variant of get_options_for_model that returns what it gathered, if empty
get_options_for_model_no_raise(S, model) ==
    IF S.registry[model] # NotIn
    THEN [st |-> S, exc |-> NoExc, ret |-> OptionsOf(S, S.registry[model])]
    ELSE
      LET acc == parents_loop(S, Parents(model), NothingGathered) IN
      IF acc.exc # NoExc
      THEN [st |-> S, exc |-> acc.exc, ret |-> NoOptions]
      ELSE [st |-> S, exc |-> NoExc, ret |-> BuiltOptions(model, acc)]

\* Translator.get_options_for_model(model): the state it leaves, what it
\* raises and the options it returns
get_options_for_model(S, model) ==
    IF S.registry[model] # NotIn
    THEN [st |-> S, exc |-> NoExc, ret |-> OptionsOf(S, S.registry[model])]
    ELSE
      LET acc == parents_loop(S, Parents(model), NothingGathered) IN
      IF acc.exc # NoExc
      THEN [st |-> S, exc |-> acc.exc, ret |-> NoOptions]
      ELSE IF /\ acc.fields # {}
              /\ DOMAIN acc.localized_fieldnames # {}
              /\ DOMAIN acc.localized_fieldnames_rev # {}
      THEN [st |-> S, exc |-> NoExc, ret |-> BuiltOptions(model, acc)]
      ELSE [st |-> S, exc |-> "NotRegistered", ret |-> NoOptions]

-----------------------------------------------------------------------------
(* fields.py: TranslationDescriptor and TranslationField *)

\* The descriptor installed on the class of the instances for field_name
Descriptor(field_name) == clsattrs[kls][field_name]

\* A freshly constructed, unsaved instance
NewObj ==
    [orig |-> [a \in Attrs |-> FieldDefault(a)],
     loc |-> [a \in Attrs |-> [l \in AVAILABLE_LANGUAGES |-> NoneVal]],
     cur |-> NoLang]

\* Variants of __set__ with a slip in them, to try the properties against
__set__no_mirror(obj, field_name, value) ==
    IF get_language = DEFAULT_LANGUAGE
    THEN [obj EXCEPT !.loc[field_name][get_language] = value,
                     !.orig[field_name] = value]
    ELSE [obj EXCEPT !.loc[field_name][get_language] = value]

__set__all_languages(obj, field_name, value) ==
    [obj EXCEPT !.loc[field_name] = [l \in AVAILABLE_LANGUAGES |-> value],
                !.orig[field_name] = value]

__set__no_localized(obj, field_name, value) ==
    [obj EXCEPT !.orig[field_name] = value]

__set__default_too(obj, field_name, value) ==
    [obj EXCEPT !.loc[field_name] =
                    [l \in AVAILABLE_LANGUAGES |->
                        IF l \in {get_language, DEFAULT_LANGUAGE}
                        THEN value ELSE @[l]],
                !.orig[field_name] = value]

\* TranslationDescriptor.__set__: the instance after instance.field_name = value
__set__(obj, field_name, value) ==
    [obj EXCEPT !.loc[field_name][get_language] = value,
                !.orig[field_name] = value]

\* Variants of __get__ with a slip in them
__get__falsy_fallback(obj, field_name) ==
    IF get_language \in DOMAIN obj.loc[field_name]
    THEN IF Truthy(obj.loc[field_name][get_language])
         THEN obj.loc[field_name][get_language]
         ELSE IF ~Truthy(Descriptor(field_name).fallback_value)
         THEN obj.orig[field_name]
         ELSE Descriptor(field_name).fallback_value
    ELSE NoneVal

__get__default_direct(obj, field_name) ==
    IF get_language = DEFAULT_LANGUAGE
    THEN obj.orig[field_name]
    ELSE IF Truthy(obj.loc[field_name][get_language])
    THEN obj.loc[field_name][get_language]
    ELSE IF Descriptor(field_name).fallback_value = NoneVal
    THEN obj.orig[field_name]
    ELSE Descriptor(field_name).fallback_value

\* TranslationDescriptor.__get__: the value instance.field_name evaluates to
__get__(obj, field_name) ==
    IF get_language \in DOMAIN obj.loc[field_name]
    THEN IF Truthy(obj.loc[field_name][get_language])
         THEN obj.loc[field_name][get_language]
         ELSE IF Descriptor(field_name).fallback_value = NoneVal
         THEN obj.orig[field_name]
         ELSE Descriptor(field_name).fallback_value
    ELSE NoneVal

\* TranslationField.get_prep_value (the translated text field passes the
\* value on unchanged)
get_prep_value(value) == IF value = "" THEN NoneVal ELSE value

-----------------------------------------------------------------------------
(* Persistence of an instance, as django's Model.save and Model.__init__ do it *)

\* The row save writes: every field's value is read with getattr, the
\* translated field through its descriptor, and prepared by the field
RowOf(obj) ==
    [orig |-> [a \in Attrs |-> __get__(obj, a)],
     loc |-> [a \in Attrs |-> [l \in AVAILABLE_LANGUAGES |->
                 get_prep_value(obj.loc[a][l])]]]

\* Model.__init__ from a row: fields are assigned in field order, the
\* translated field (through its descriptor) before its translation fields
RECURSIVE InitFromRow(_, _, _)
InitFromRow(obj, row, attrs) ==
    IF attrs = {} THEN obj
    ELSE LET a == CHOOSE a \in attrs : TRUE
             o1 == __set__(obj, a, row.orig[a])
             o2 == [o1 EXCEPT !.loc[a] = row.loc[a]]
         IN  InitFromRow(o2, row, attrs \ {a})

-----------------------------------------------------------------------------
(* translator.py: the save handlers *)

\* Variants of the handlers with a slip in them
pre_save_fix_handler_no_pin(instance) ==
    /\ objs' = [objs EXCEPT ![instance].cur = get_language]
    /\ lang' = lang

pre_save_fix_handler_pin_first(instance) ==
    /\ objs' = [objs EXCEPT ![instance].cur = DEFAULT_LANGUAGE]
    /\ lang' = DEFAULT_LANGUAGE

post_save_fix_handler_default(instance) ==
    /\ lang' = DEFAULT_LANGUAGE
    /\ UNCHANGED objs

pre_save_fix_handler(instance) ==
    /\ objs' = [objs EXCEPT ![instance].cur = get_language]
    /\ lang' = DEFAULT_LANGUAGE

post_save_fix_handler(instance) ==
    /\ lang' = objs[instance].cur
    /\ UNCHANGED objs

-----------------------------------------------------------------------------
(* Operations on instances of a registered model *)

Op(op, inst, attr, val) ==
    [op |-> op, inst |-> inst, attr |-> attr, val |-> val, ret |-> NoOptions]

NoRt == [phase |-> "none", inst |-> NoInst, attr |-> "", lang |-> NoLang,
         val |-> NoneVal]

\* translation.activate(l)
Activate(l) ==
    /\ pc = "idle"
    /\ lang' = l
    /\ last' = Op("activate", NoInst, "", l)
    /\ UNCHANGED <<objs, db, pc, saving, callerLang, rt, writes, kls>>
    /\ UNCHANGED regvars

\* instance.field_name = value
Set(i, a, v) ==
    /\ pc = "idle"
    /\ writes < MaxWrites
    /\ objs' = [objs EXCEPT ![i] = __set__(objs[i], a, v)]
    /\ writes' = writes + 1
    /\ last' = Op("set", i, a, v)
    /\ rt' = [phase |-> "written", inst |-> i, attr |-> a, lang |-> lang,
              val |-> v]
    /\ UNCHANGED <<lang, db, pc, saving, callerLang, kls>>
    /\ UNCHANGED regvars

\* instance.<field_name>_<l> = value: the translation field is a plain attribute
SetLocalized(i, a, l, v) ==
    /\ pc = "idle"
    /\ writes < MaxWrites
    /\ objs' = [objs EXCEPT ![i].loc[a][l] = v]
    /\ writes' = writes + 1
    /\ last' = Op("setloc", i, a, v)
    /\ rt' = IF rt.inst = i THEN NoRt ELSE rt
    /\ UNCHANGED <<lang, db, pc, saving, callerLang, kls>>
    /\ UNCHANGED regvars

\* instance.field_name
Get(i, a) ==
    /\ pc = "idle"
    /\ last' = Op("get", i, a, __get__(objs[i], a))
    /\ UNCHANGED <<lang, objs, db, pc, saving, callerLang, rt, writes, kls>>
    /\ UNCHANGED regvars

\* instance.save() is invoked: the pre_save signal is sent
SaveBegin(i) ==
    /\ pc = "idle"
    /\ pre_save_fix_handler(i)
    /\ pc' = "pre_save"
    /\ saving' = i
    /\ callerLang' = lang
    /\ last' = Op("pre_save", i, "", NoneVal)
    /\ UNCHANGED <<db, rt, writes, kls>>
    /\ UNCHANGED regvars

\* The row is written
Persist ==
    /\ pc = "pre_save"
    /\ db' = [i \in DOMAIN db \cup {saving} |->
                 IF i = saving THEN RowOf(objs[saving]) ELSE db[i]]
    /\ pc' = "persisted"
    /\ last' = Op("persist", saving, "", NoneVal)
    /\ rt' = IF rt.inst # saving THEN rt
             ELSE IF rt.phase = "written" THEN [rt EXCEPT !.phase = "saved"]
             ELSE NoRt
    /\ UNCHANGED <<lang, objs, saving, callerLang, writes, kls>>
    /\ UNCHANGED regvars

\* Writing the row raises: the exception propagates out of save and the
\* post_save signal is not sent
PersistFails ==
    /\ pc = "pre_save"
    /\ pc' = "idle"
    /\ saving' = NoInst
    /\ callerLang' = NoLang
    /\ last' = Op("persist_failed", saving, "", NoneVal)
    /\ UNCHANGED <<lang, objs, db, rt, writes, kls>>
    /\ UNCHANGED regvars

\* The post_save signal is sent and save returns
SaveEnd ==
    /\ pc = "persisted"
    /\ post_save_fix_handler(saving)
    /\ pc' = "idle"
    /\ saving' = NoInst
    /\ callerLang' = NoLang
    /\ last' = Op("post_save", saving, "", NoneVal)
    /\ UNCHANGED <<db, rt, writes, kls>>
    /\ UNCHANGED regvars

\* instance = Model.objects.get(pk=instance.pk): a new object from the row
Reload(i) ==
    /\ pc = "idle"
    /\ i \in DOMAIN db
    /\ objs' = [objs EXCEPT ![i] = InitFromRow(NewObj, db[i], Attrs)]
    /\ last' = Op("reload", i, "", NoneVal)
    /\ rt' = IF rt.inst # i THEN rt
             ELSE IF rt.phase = "saved" THEN [rt EXCEPT !.phase = "reloaded"]
             ELSE NoRt
    /\ UNCHANGED <<lang, db, pc, saving, callerLang, writes, kls>>
    /\ UNCHANGED regvars

\* After translation.py has registered the model of the instances; the
\* tests start with the default language active
InitWith(instances) ==
    /\ lang = DEFAULT_LANGUAGE
    /\ objs = [i \in instances |-> NewObj]
    /\ db = << >>
    /\ pc = "idle"
    /\ saving = NoInst
    /\ callerLang = NoLang
    /\ last = Op("init", NoInst, "", NoneVal)
    /\ rt = NoRt
    /\ writes = 0
    /\ kls = "TestModel"
    /\ \E translation_opts \in TestModelOptionsClasses :
          LET S == register(EmptyRegState, kls, translation_opts).st IN
          /\ registry = S.registry
          /\ meta = S.meta
          /\ clsattrs = S.clsattrs
          /\ hooks = S.hooks
          /\ optattrs = S.optattrs
          /\ regorder = S.order
    /\ calls = 0

Init == InitWith(Instances)

Next ==
    \/ \E l \in AVAILABLE_LANGUAGES : Activate(l)
    \/ \E i \in Instances, a \in Attrs, v \in WriteValues : Set(i, a, v)
    \/ \E i \in Instances, a \in Attrs, l \in AVAILABLE_LANGUAGES,
          v \in WriteValues : SetLocalized(i, a, l, v)
    \/ \E i \in Instances, a \in Attrs : Get(i, a)
    \/ \E i \in Instances : SaveBegin(i)
    \/ Persist
    \/ PersistFails
    \/ SaveEnd
    \/ \E i \in Instances : Reload(i)

Spec == Init /\ [][Next]_vars

\* Attribute access on two instances, with no save in between
InitTwo == InitWith(TwoInstances)

NextTwo ==
    \/ \E l \in AVAILABLE_LANGUAGES : Activate(l)
    \/ \E i \in TwoInstances, a \in Attrs, v \in WriteValues : Set(i, a, v)
    \/ \E i \in TwoInstances, a \in Attrs, l \in AVAILABLE_LANGUAGES,
          v \in WriteValues : SetLocalized(i, a, l, v)
    \/ \E i \in TwoInstances, a \in Attrs : Get(i, a)

SpecTwo == InitTwo /\ [][NextTwo]_vars

-----------------------------------------------------------------------------
(* Calls to the translator, from before translation.py has run *)

\* The calls to register: a model or an iterable of models, and options whose
\* fields the models have
RegisterArgs ==
    {<<<<"TestModel">>, "TestTranslationOptions">>,
     <<<<"TestModel", "FallbackTestModel">>, "TestTranslationOptions">>,
     <<<<"FallbackTestModel">>, "TestTranslationOptions">>,
     <<<<"FallbackTestModel">>, "TestTranslationOptionsFallback">>,
     <<<<"FallbackTestModel">>, "NoFieldsOptions">>,
     <<<<"FileFieldsModel">>, "TestTranslationOptionsModelFileFields">>,
     <<<<"MultitableModelA">>, "TranslationOptionsTestModelMultitableA">>,
     <<<<"MultitableModelB">>, "TranslationOptionsTestModelMultitableB">>,
     <<<<"User">>, "UserOptionsKindFirst">>,
     <<<<"User">>, "UserOptionsKindLast">>}

\* The calls to unregister
ModelArgs ==
    {<<m>> : m \in {"TestModel", "FallbackTestModel", "FileFieldsModel",
                    "MultitableModelA", "MultitableModelB", "User"}}
    \cup {<<"TestModel", "FallbackTestModel">>}

\* The models whose options are asked for
OptionsArgs ==
    {"TestModel", "MultitableModelB", "MultitableModelC", "MultitableModelD",
     "TwoParentsModel", "User"}

\* The attributes read on a model class
ClassGetArgs ==
    {<<"TestModel", "title">>, <<"FileFieldsModel", "title">>,
     <<"FileFieldsModel", "file">>, <<"FileFieldsModel", "image">>,
     <<"MultitableModelB", "titleb">>}

SetRegState(S) ==
    /\ registry' = S.registry
    /\ meta' = S.meta
    /\ clsattrs' = S.clsattrs
    /\ hooks' = S.hooks
    /\ optattrs' = S.optattrs
    /\ regorder' = S.order

\* translator.register(models, translation_opts)
Register(models, translation_opts) ==
    /\ calls < MaxCalls
    /\ LET r == register_all(RegState, models, translation_opts) IN
       /\ SetRegState(r.st)
       /\ last' = Op("register", models, translation_opts, r.exc)
    /\ calls' = calls + 1
    /\ UNCHANGED instvars

\* translator.unregister(models)
Unregister(models) ==
    /\ calls < MaxCalls
    /\ LET r == unregister_all(RegState, models) IN
       /\ SetRegState(r.st)
       /\ last' = Op("unregister", models, "", r.exc)
    /\ calls' = calls + 1
    /\ UNCHANGED instvars

\* translator.get_options_for_model(model)
GetOptions(model) ==
    /\ LET r == get_options_for_model(RegState, model) IN
       /\ SetRegState(r.st)
       /\ last' = [Op("get_options", <<model>>, "", r.exc) EXCEPT !.ret = r.ret]
    /\ UNCHANGED calls
    /\ UNCHANGED instvars

\* Reading the attribute on the model class: model.<name>
ClassGet(model, name) ==
    /\ LET r == getattr_on_class(RegState, model, name) IN
       last' = [Op("class_get", <<model>>, name, r.exc) EXCEPT !.ret = r.val]
    /\ UNCHANGED regvars
    /\ UNCHANGED instvars

InitReg ==
    /\ lang = DEFAULT_LANGUAGE
    /\ objs = << >>
    /\ db = << >>
    /\ pc = "idle"
    /\ saving = NoInst
    /\ callerLang = NoLang
    /\ last = Op("init", << >>, "", NoneVal)
    /\ rt = NoRt
    /\ writes = 0
    /\ kls = "TestModel"
    /\ registry = EmptyRegState.registry
    /\ meta = EmptyRegState.meta
    /\ clsattrs = EmptyRegState.clsattrs
    /\ hooks = EmptyRegState.hooks
    /\ optattrs = EmptyRegState.optattrs
    /\ regorder = EmptyRegState.order
    /\ calls = 0

NextReg ==
    \/ \E args \in RegisterArgs : Register(args[1], args[2])
    \/ \E models \in ModelArgs : Unregister(models)
    \/ \E model \in OptionsArgs : GetOptions(model)
    \/ \E args \in ClassGetArgs : ClassGet(args[1], args[2])

SpecReg == InitReg /\ [][NextReg]_vars

-----------------------------------------------------------------------------
(* The query rewriter of the multilingual manager (modeltranslation.manager) *)

\* The values the rows hold and the values asked for (test_filter)
StoredValues == {"de", "en", "title en"}
QueryValues == {"de", "en", "t"}

\* The characters of a value
Chars(s) ==
    CASE s = "de" -> <<"d", "e">>
      [] s = "en" -> <<"e", "n">>
      [] s = "t" -> <<"t">>
      [] s = "title en" -> <<"t", "i", "t", "l", "e", " ", "e", "n">>
      [] OTHER -> << >>

startswith(s, prefix) ==
    Len(prefix) <= Len(s) /\ SubSeq(s, 1, Len(prefix)) = prefix

contains(s, sub) ==
    \E k \in 0..(Len(s) - Len(sub)) : SubSeq(s, k + 1, k + Len(sub)) = sub

\* The lookup types of a filter; a NULL column matches none of them
Matches(lookup_type, stored, value) ==
    /\ stored # NoneVal
    /\ CASE lookup_type = "contains" -> contains(Chars(stored), Chars(value))
         [] lookup_type = "startswith" ->
                startswith(Chars(stored), Chars(value))
         [] OTHER -> stored = value

\* A lookup key is the sequence of its pieces, lookup_key.split('__'): the
\* field name and, possibly, the lookup type
LookupKeys ==
    {<<"title">>, <<"title", "contains">>, <<"title", "startswith">>,
     <<"title_en">>, <<"title_en", "contains">>, <<"title_de">>}

\* The translatable fields of the model
TranslatableFields(model) ==
    DOMAIN get_options_for_model(RegState, model).ret.localized_fieldnames

\* A variant of the rewriter that treats the default language as any other
rewrite_lookup_key_every_language(model, pieces) ==
    IF pieces[1] \in TranslatableFields(model)
    THEN <<build_localized_fieldname(pieces[1], get_language)>> \o Tail(pieces)
    ELSE pieces

\* The key of the field the query is made on: the translation field of the
\* active language for a translatable field, unless the default language is
\* active; the lookup type stays, any other key is left as it is
rewrite_lookup_key(model, pieces) ==
    IF pieces[1] \in TranslatableFields(model)
           /\ get_language # DEFAULT_LANGUAGE
    THEN <<build_localized_fieldname(pieces[1], get_language)>> \o Tail(pieces)
    ELSE pieces

\* The value a row holds in a column: of a translated field, or of one of its
\* translation fields
ColumnValue(model, row, column) ==
    LET opts == get_options_for_model(RegState, model).ret IN
    IF column \in DOMAIN opts.localized_fieldnames
    THEN row.orig[column]
    ELSE LET a == opts.localized_fieldnames_rev[column]
             k == CHOOSE k \in 1..Len(LANGUAGES) :
                      opts.localized_fieldnames[a][k] = column
         IN  row.loc[a][LANGUAGES[k]]

\* Model.objects.filter(**{lookup_key: value}): the instances it selects
filter(model, rows, pieces, value) ==
    LET key == rewrite_lookup_key(model, pieces)
        lookup_type == IF Len(key) > 1 THEN key[2] ELSE "exact"
    IN  {i \in DOMAIN rows :
            Matches(lookup_type, ColumnValue(model, rows[i], key[1]), value)}

Filter(pieces, value) ==
    /\ pc = "idle"
    /\ last' = [Op("filter", NoInst, "", value) EXCEPT
                   !.ret = [name |-> "<query set>", key |-> pieces,
                            lang |-> lang,
                            pks |-> filter(kls, db, pieces, value)]]
    /\ UNCHANGED instvars
    /\ UNCHANGED regvars

\* The instances as they can be before they are saved: the title written,
\* then its translation fields
QueryObjs ==
    {[NewObj EXCEPT !.orig["title"] = t,
                    !.loc["title"] = [l \in AVAILABLE_LANGUAGES |->
                                         IF l = "de" THEN d ELSE e]] :
        t \in StoredValues, d \in StoredValues \cup {NoneVal},
        e \in StoredValues \cup {NoneVal}}

\* Two saved instances of TestModel, under the default language
InitQuery ==
    /\ lang = DEFAULT_LANGUAGE
    /\ kls = "TestModel"
    /\ LET S == register(EmptyRegState, kls, "TestTranslationOptions").st IN
       /\ registry = S.registry
       /\ meta = S.meta
       /\ clsattrs = S.clsattrs
       /\ hooks = S.hooks
       /\ optattrs = S.optattrs
       /\ regorder = S.order
    /\ objs = << >>
    /\ \E o \in [TwoInstances -> QueryObjs] :
          db = [i \in TwoInstances |-> RowOf(o[i])]
    /\ pc = "idle"
    /\ saving = NoInst
    /\ callerLang = NoLang
    /\ last = Op("init", NoInst, "", NoneVal)
    /\ rt = NoRt
    /\ writes = 0
    /\ calls = 0

NextQuery ==
    \/ \E l \in AVAILABLE_LANGUAGES : Activate(l)
    \/ \E pieces \in LookupKeys, value \in QueryValues : Filter(pieces, value)

SpecQuery == InitQuery /\ [][NextQuery]_vars

-----------------------------------------------------------------------------
(* Bulk updates through the multilingual manager (test_update, test_f) *)

MaxUpdates == 2

Digits == <<"0", "1", "2", "3", "4", "5", "6", "7", "8", "9">>

\* str(n), and the number a column holding a string of digits counts as
RECURSIVE Str(_)
Str(n) ==
    IF n < 10 THEN Digits[n + 1]
    ELSE Str(n \div 10) \o Digits[(n % 10) + 1]

ToInt(s) == CHOOSE n \in 0..99 : Str(n) = s

\* The row with one of its columns assigned
SetColumn(model, row, column, value) ==
    LET opts == get_options_for_model(RegState, model).ret IN
    IF column \in DOMAIN opts.localized_fieldnames
    THEN [row EXCEPT !.orig[column] = value]
    ELSE LET a == opts.localized_fieldnames_rev[column]
             k == CHOOSE k \in 1..Len(LANGUAGES) :
                      opts.localized_fieldnames[a][k] = column
         IN  [row EXCEPT !.loc[a][LANGUAGES[k]] = value]

\* Model.objects.update(**{field_name: value}) with a literal value: the key
\* is rewritten as that of a filter is
update(model, rows, field_name, value) ==
    LET key == rewrite_lookup_key(model, <<field_name>>) IN
    [i \in DOMAIN rows |-> SetColumn(model, rows[i], key[1], value)]

\* A variant of the expression update that rewrites its key and operand
update_expression_rewritten(model, rows, field_name, operand, delta) ==
    LET key == rewrite_lookup_key(model, <<field_name>>)
        from == rewrite_lookup_key(model, <<operand>>)
    IN
    [i \in DOMAIN rows |->
        LET old == ColumnValue(model, rows[i], from[1]) IN
        SetColumn(model, rows[i], key[1],
                  IF old = NoneVal THEN NoneVal ELSE Str(ToInt(old) + delta))]

\* Model.objects.update(**{field_name: F(operand) + delta}): neither the key
\* nor the operand of the expression is rewritten; NULL + delta is NULL
update_expression(model, rows, field_name, operand, delta) ==
    [i \in DOMAIN rows |->
        LET old == ColumnValue(model, rows[i], operand) IN
        SetColumn(model, rows[i], field_name,
                  IF old = NoneVal THEN NoneVal ELSE Str(ToInt(old) + delta))]

Update(field_name, value) ==
    /\ pc = "idle"
    /\ db' = update(kls, db, field_name, value)
    /\ last' = Op("update", NoInst, field_name, value)
    /\ UNCHANGED <<lang, objs, pc, saving, callerLang, rt, writes, kls>>
    /\ UNCHANGED regvars

UpdateExpression(field_name, delta) ==
    /\ pc = "idle"
    /\ writes < MaxUpdates
    /\ db' = update_expression(kls, db, field_name, field_name, delta)
    /\ last' = Op("update_expression", NoInst, field_name, Str(delta))
    /\ writes' = writes + 1
    /\ UNCHANGED <<lang, objs, pc, saving, callerLang, rt, kls>>
    /\ UNCHANGED regvars

\* The instances test_f creates: string numbers in title and title_en
UpdateObjs ==
    {[NewObj EXCEPT !.orig["title"] = t,
                    !.loc["title"] = [l \in AVAILABLE_LANGUAGES |->
                                         IF l = "de" THEN d ELSE e]] :
        t \in {"1", "2"}, d \in {NoneVal, "2"}, e \in {NoneVal, "1"}}

InitUpdate ==
    /\ lang = DEFAULT_LANGUAGE
    /\ kls = "TestModel"
    /\ LET S == register(EmptyRegState, kls, "TestTranslationOptions").st IN
       /\ registry = S.registry
       /\ meta = S.meta
       /\ clsattrs = S.clsattrs
       /\ hooks = S.hooks
       /\ optattrs = S.optattrs
       /\ regorder = S.order
    /\ objs = << >>
    /\ \E o \in [TwoInstances -> UpdateObjs] :
          db = [i \in TwoInstances |-> RowOf(o[i])]
    /\ pc = "idle"
    /\ saving = NoInst
    /\ callerLang = NoLang
    /\ last = Op("init", NoInst, "", NoneVal)
    /\ rt = NoRt
    /\ writes = 0
    /\ calls = 0

NextUpdate ==
    \/ \E l \in AVAILABLE_LANGUAGES : Activate(l)
    \/ \E value \in {"7"} : Update("title", value)
    \/ \E delta \in {10, 20} : UpdateExpression("title", delta)

SpecUpdate == InitUpdate /\ [][NextUpdate]_vars

-----------------------------------------------------------------------------
(* fields.py: the descriptors of file and image fields, on an instance *)

MaxFileWrites == 1

\* What a slot of instance.__dict__ holds for a file field: None, a path
\* string, or a file handle of the field's attr_class. Handles are objects:
\* id, the number of writes made when the handle was constructed, tells a
\* handle from one constructed for the same slot after a later write.
NoFile == [kind |-> "NoneType", name |-> NoneVal, id |-> 0]
PathStr(path) == [kind |-> "str", name |-> path, id |-> 0]
FileValue(v) == IF v = NoneVal THEN NoFile ELSE PathStr(v)

\* The file and image fields among the fields of the options of
\* FileFieldsModel, and the keys they and their localized fields have in
\* instance.__dict__
FileAttrs ==
    {a \in {OptFields("TestTranslationOptionsModelFileFields")[k] :
              k \in 1..Len(OptFields("TestTranslationOptionsModelFileFields"))} :
        FieldKind("FileFieldsModel", a) \in {"FileField", "ImageField"}}

FileSlots ==
    FileAttrs \cup
    {build_localized_fieldname(a, l) :
        a \in FileAttrs, l \in AVAILABLE_LANGUAGES}

\* The class has the descriptor of modeltranslation under the name
HasFileDescriptor(a) ==
    clsattrs[kls][a].cls \in
        {"TranslationFileDescriptor", "TranslationImageDescriptor"}

\* field.attr_class
attr_class(model, field_name) ==
    IF FieldKind(model, field_name) = "ImageField"
    THEN "ImageFieldFile" ELSE "FieldFile"

IsHandle(file) == file.kind \in {"FieldFile", "ImageFieldFile"}

\* A new object of attr_class
NewHandle(cls, name) ==
    [kind |-> cls, name |-> name, id |-> writes + 1]

\* FileDescriptor.__set__, which TranslationFileDescriptor inherits:
\* instance.__dict__[self.field.name] = value
file__set__(d, field_name, value) ==
    [d EXCEPT ![field_name] = value]

\* A variant of __get__ that wraps whatever the slot holds
file__get__rewrap(d, field_name) ==
    LET slot == build_localized_fieldname(field_name, get_language)
        attr == NewHandle(attr_class(kls, field_name), d[slot].name)
    IN  [d |-> [d EXCEPT ![slot] = attr], ret |-> attr]

\* TranslationFileDescriptor.__get__(instance): the __dict__ it leaves and
\* the value it returns
file__get__(d, field_name) ==
    LET slot == build_localized_fieldname(field_name, get_language)
        file == d[slot]
    IN
    IF file.kind \in {"str", "NoneType"}
    THEN LET attr == NewHandle(attr_class(kls, field_name), file.name)
         IN  [d |-> [d EXCEPT ![slot] = attr], ret |-> attr]
    ELSE [d |-> d, ret |-> file]

\* instance.<field_name> = value, for a file or image field
FileSet(i, a, v) ==
    /\ pc = "idle"
    /\ HasFileDescriptor(a)
    /\ writes < MaxFileWrites
    /\ objs' = [objs EXCEPT ![i] = file__set__(@, a, FileValue(v))]
    /\ writes' = writes + 1
    /\ last' = Op("file_set", i, a, v)
    /\ rt' = [phase |-> "written", inst |-> i, attr |-> a, lang |-> lang,
              val |-> v]
    /\ UNCHANGED <<lang, db, pc, saving, callerLang, kls>>
    /\ UNCHANGED regvars

\* instance.<field_name>_<l> = value: a plain attribute of the instance
FileSetLocalized(i, a, l, v) ==
    /\ pc = "idle"
    /\ HasFileDescriptor(a)
    /\ writes < MaxFileWrites
    /\ objs' = [objs EXCEPT
                  ![i][build_localized_fieldname(a, l)] = FileValue(v)]
    /\ writes' = writes + 1
    /\ last' = Op("file_setloc", i, build_localized_fieldname(a, l), v)
    /\ rt' = IF rt.inst = i /\ rt.attr = a THEN NoRt ELSE rt
    /\ UNCHANGED <<lang, db, pc, saving, callerLang, kls>>
    /\ UNCHANGED regvars

\* instance.<field_name>, for a file or image field
FileGet(i, a) ==
    /\ pc = "idle"
    /\ HasFileDescriptor(a)
    /\ LET r == file__get__(objs[i], a) IN
       /\ objs' = [objs EXCEPT ![i] = r.d]
       /\ last' = [Op("file_get", i, a, r.ret.name) EXCEPT !.ret = r.ret]
    /\ UNCHANGED <<lang, db, pc, saving, callerLang, rt, writes, kls>>
    /\ UNCHANGED regvars

\* instance.<field_name>.save(name, content): the handle read from the
\* instance takes the name the storage gives the file under upload_to and
\* assigns it to instance.<field_name>
FileSave(i, a, name) ==
    /\ pc = "idle"
    /\ HasFileDescriptor(a)
    /\ writes < MaxFileWrites
    /\ LET r == file__get__(objs[i], a)
           slot == build_localized_fieldname(a, get_language)
           saved == [r.ret EXCEPT !.name = "test/" \o name]
       IN
       /\ objs' = [objs EXCEPT
                     ![i] = file__set__([r.d EXCEPT ![slot] = saved], a,
                                        PathStr(saved.name))]
       /\ last' = [Op("file_save", i, a, saved.name) EXCEPT !.ret = saved]
    /\ writes' = writes + 1
    /\ rt' = IF rt.inst = i /\ rt.attr = a THEN NoRt ELSE rt
    /\ UNCHANGED <<lang, db, pc, saving, callerLang, kls>>
    /\ UNCHANGED regvars

InitFile ==
    /\ lang = DEFAULT_LANGUAGE
    /\ kls = "FileFieldsModel"
    /\ LET S == register(EmptyRegState, kls,
                         "TestTranslationOptionsModelFileFields").st IN
       /\ registry = S.registry
       /\ meta = S.meta
       /\ clsattrs = S.clsattrs
       /\ hooks = S.hooks
       /\ optattrs = S.optattrs
       /\ regorder = S.order
       \* FileFieldsModel(**kwargs): the fields not given are None
       /\ \E old \in {NoFile, PathStr("old")} :
            objs = [i \in Instances |->
                      [k \in FileSlots |->
                          IF k \in FileAttrs THEN NoFile ELSE old]]
    /\ db = << >>
    /\ pc = "idle"
    /\ saving = NoInst
    /\ callerLang = NoLang
    /\ last = Op("init", NoInst, "", NoneVal)
    /\ rt = NoRt
    /\ writes = 0
    /\ calls = 0

NextFile ==
    \/ \E l \in AVAILABLE_LANGUAGES : Activate(l)
    \/ \E i \in Instances, a \in FileAttrs, v \in {NoneVal, "a"} :
          FileSet(i, a, v)
    \/ \E i \in Instances, a \in FileAttrs, l \in AVAILABLE_LANGUAGES,
          v \in {NoneVal, "a"} : FileSetLocalized(i, a, l, v)
    \/ \E i \in Instances, a \in FileAttrs : FileGet(i, a)
    \/ \E i \in Instances, a \in FileAttrs, name \in {"b"} :
          FileSave(i, a, name)

SpecFile == InitFile /\ [][NextFile]_vars

-----------------------------------------------------------------------------
(* translator.py: the save handlers when a receiver of pre_save or post_save
   calls save again. pc is the stack of the save calls that have not
   returned, the innermost last. *)

MaxDepth == 2

Frame(instance) == [inst |-> instance, at |-> "pre_save", reentered |-> FALSE]

\* translation.activate(l), outside of every save
ActivateOutside(l) ==
    /\ pc = << >>
    /\ lang' = l
    /\ last' = Op("activate", NoInst, "", l)
    /\ UNCHANGED <<objs, db, pc, saving, callerLang, rt, writes, kls>>
    /\ UNCHANGED regvars

\* instance.save() is called, by the program or by a receiver that runs
\* inside a save that has sent pre_save and has not yet sent post_save to the
\* handler: pre_save is sent
SaveEnter(i) ==
    /\ Len(pc) < MaxDepth
    /\ pre_save_fix_handler(i)
    /\ pc' = Append([k \in DOMAIN pc |->
                        IF pc[k].inst = i
                        THEN [pc[k] EXCEPT !.reentered = TRUE] ELSE pc[k]],
                    Frame(i))
    /\ saving' = i
    /\ callerLang' = IF pc = << >> THEN lang ELSE callerLang
    /\ last' = Op("pre_save", i, "", NoneVal)
    /\ UNCHANGED <<db, rt, writes, kls>>
    /\ UNCHANGED regvars

\* The innermost save writes its row
SavePersist ==
    /\ pc # << >>
    /\ pc[Len(pc)].at = "pre_save"
    /\ db' = [i \in DOMAIN db \cup {saving} |->
                 IF i = saving THEN RowOf(objs[saving]) ELSE db[i]]
    /\ pc' = [pc EXCEPT ![Len(pc)].at = "persisted"]
    /\ last' = Op("persist", saving, "", NoneVal)
    /\ UNCHANGED <<lang, objs, saving, callerLang, rt, writes, kls>>
    /\ UNCHANGED regvars

\* The innermost save sends post_save and returns to the save around it
SaveReturn ==
    /\ pc # << >>
    /\ pc[Len(pc)].at = "persisted"
    /\ post_save_fix_handler(saving)
    /\ pc' = SubSeq(pc, 1, Len(pc) - 1)
    /\ saving' = IF Len(pc) = 1 THEN NoInst ELSE pc[Len(pc) - 1].inst
    /\ last' = [Op("post_save", saving, "", NoneVal) EXCEPT
                   !.ret = [name |-> "<save returned>",
                            reentered |-> pc[Len(pc)].reentered]]
    /\ UNCHANGED <<db, callerLang, rt, writes, kls>>
    /\ UNCHANGED regvars

InitNested ==
    /\ lang = DEFAULT_LANGUAGE
    /\ objs = [i \in TwoInstances |-> NewObj]
    /\ db = << >>
    /\ pc = << >>
    /\ saving = NoInst
    /\ callerLang = NoLang
    /\ last = Op("init", NoInst, "", NoneVal)
    /\ rt = NoRt
    /\ writes = 0
    /\ kls = "TestModel"
    /\ LET S == register(EmptyRegState, kls, "TestTranslationOptions").st IN
       /\ registry = S.registry
       /\ meta = S.meta
       /\ clsattrs = S.clsattrs
       /\ hooks = S.hooks
       /\ optattrs = S.optattrs
       /\ regorder = S.order
    /\ calls = 0

NextNested ==
    \/ \E l \in AVAILABLE_LANGUAGES : ActivateOutside(l)
    \/ \E i \in TwoInstances : SaveEnter(i)
    \/ SavePersist
    \/ SaveReturn

SpecNested == InitNested /\ [][NextNested]_vars

-----------------------------------------------------------------------------
(* translator.py: the save handlers run by two threads. The active language
   belongs to the thread (lang[t]); an instance is an object both threads can
   hold, and _current_lang is an attribute of it. The threads interleave
   between the handlers. *)

Threads == {"t1", "t2"}

\* pre_save_fix_handler, run by thread t
pre_save_fix_handler_in(t, instance) ==
    /\ objs' = [objs EXCEPT ![instance].cur = lang[t]]
    /\ lang' = [lang EXCEPT ![t] = DEFAULT_LANGUAGE]

\* post_save_fix_handler, run by thread t
post_save_fix_handler_in(t, instance) ==
    /\ lang' = [lang EXCEPT ![t] = objs[instance].cur]
    /\ UNCHANGED objs

\* translation.activate(l) in thread t
ThreadActivate(t, l) ==
    /\ pc[t] = "idle"
    /\ lang' = [lang EXCEPT ![t] = l]
    /\ last' = Op("activate", NoInst, t, l)
    /\ UNCHANGED <<objs, db, pc, saving, callerLang, rt, writes, kls>>
    /\ UNCHANGED regvars

\* Thread t calls instance.save(): pre_save is sent
ThreadSaveBegin(t, i) ==
    /\ pc[t] = "idle"
    /\ pre_save_fix_handler_in(t, i)
    /\ pc' = [pc EXCEPT ![t] = "pre_save"]
    /\ saving' = [saving EXCEPT ![t] = i]
    /\ callerLang' = [callerLang EXCEPT ![t] = lang[t]]
    /\ last' = Op("pre_save", i, t, NoneVal)
    /\ UNCHANGED <<db, rt, writes, kls>>
    /\ UNCHANGED regvars

\* The row of thread t's save is written
ThreadPersist(t) ==
    /\ pc[t] = "pre_save"
    /\ pc' = [pc EXCEPT ![t] = "persisted"]
    /\ last' = Op("persist", saving[t], t, NoneVal)
    /\ UNCHANGED <<lang, objs, db, saving, callerLang, rt, writes, kls>>
    /\ UNCHANGED regvars

\* post_save is sent and thread t's save returns
ThreadSaveEnd(t) ==
    /\ pc[t] = "persisted"
    /\ post_save_fix_handler_in(t, saving[t])
    /\ pc' = [pc EXCEPT ![t] = "idle"]
    /\ saving' = [saving EXCEPT ![t] = NoInst]
    /\ last' = Op("post_save", saving[t], t, NoneVal)
    /\ UNCHANGED <<db, callerLang, rt, writes, kls>>
    /\ UNCHANGED regvars

InitThreads ==
    /\ lang \in {f \in [Threads -> AVAILABLE_LANGUAGES] : f["t1"] # f["t2"]}
    /\ objs = [i \in TwoInstances |-> NewObj]
    /\ db = << >>
    /\ pc = [t \in Threads |-> "idle"]
    /\ saving = [t \in Threads |-> NoInst]
    /\ callerLang = [t \in Threads |-> NoLang]
    /\ last = Op("init", NoInst, "", NoneVal)
    /\ rt = NoRt
    /\ writes = 0
    /\ kls = "TestModel"
    /\ LET S == register(EmptyRegState, kls, "TestTranslationOptions").st IN
       /\ registry = S.registry
       /\ meta = S.meta
       /\ clsattrs = S.clsattrs
       /\ hooks = S.hooks
       /\ optattrs = S.optattrs
       /\ regorder = S.order
    /\ calls = 0

NextThreads ==
    \/ \E t \in Threads, l \in AVAILABLE_LANGUAGES : ThreadActivate(t, l)
    \/ \E t \in Threads, i \in TwoInstances : ThreadSaveBegin(t, i)
    \/ \E t \in Threads : ThreadPersist(t)
    \/ \E t \in Threads : ThreadSaveEnd(t)

SpecThreads == InitThreads /\ [][NextThreads]_vars

-----------------------------------------------------------------------------
(* admin.py: TranslationBaseModelAdmin.add_translation_fields *)

MaxLen == 3

\* modeltranslation.utils.get_translation_fields(field, include_original=True)
get_translation_fields(field) ==
    <<field>> \o [k \in 1..Len(LANGUAGES) |->
                     build_localized_fieldname(field, LANGUAGES[k])]

\* An option of a ModelAdmin (fields, exclude, the fields of a fieldset): None,
\* a list or a tuple of names
NoneOption == [name |-> "<option>", type |-> "NoneType", items |-> << >>]
ListOption(type, items) == [name |-> "<option>", type |-> type, items |-> items]

In(f, seq) == \E k \in 1..Len(seq) : seq[k] = f

\* list.index
index(seq, f) == CHOOSE k \in 1..Len(seq) : seq[k] = f /\ \A j \in 1..(k - 1) : seq[j] # f

\* A variant of the loop without the test that prevents dupe replacements
RECURSIVE add_translation_fields_loop_always(_, _, _)
add_translation_fields_loop_always(fields, option_new, rest) ==
    IF rest = << >> THEN option_new
    ELSE
      LET opt == Head(rest) IN
      IF opt \in fields
      THEN LET i == index(option_new, opt)
               translation_fields == get_translation_fields(opt)
           IN  add_translation_fields_loop_always(
                   fields,
                   SubSeq(option_new, 1, i - 1) \o translation_fields \o
                       SubSeq(option_new, i + 1, Len(option_new)),
                   Tail(rest))
      ELSE add_translation_fields_loop_always(fields, option_new, Tail(rest))

\* for opt in option: ... option_new[index:index + 1] = translation_fields
RECURSIVE add_translation_fields_loop(_, _, _)
add_translation_fields_loop(fields, option_new, rest) ==
    IF rest = << >> THEN option_new
    ELSE
      LET opt == Head(rest) IN
      IF opt \in fields
      THEN LET i == index(option_new, opt)
               translation_fields == get_translation_fields(opt)
           IN
           IF \E k \in 1..Len(translation_fields) :
                  ~In(translation_fields[k], option_new)
           THEN add_translation_fields_loop(
                    fields,
                    SubSeq(option_new, 1, i - 1) \o translation_fields \o
                        SubSeq(option_new, i + 1, Len(option_new)),
                    Tail(rest))
           ELSE add_translation_fields_loop(fields, option_new, Tail(rest))
      ELSE add_translation_fields_loop(fields, option_new, Tail(rest))

\* A variant of add_translation_fields that replaces every registered name
add_translation_fields_always(S, model, option) ==
    LET trans_opts == get_options_for_model(S, model).ret IN
    IF option.items = << >> THEN option
    ELSE ListOption("list",
                    add_translation_fields_loop_always(
                        trans_opts.fields, option.items, option.items))

\* add_translation_fields(option), for the admin of the model: an option that
\* is None or empty is returned as it is, any other as a new list
add_translation_fields(S, model, option) ==
    LET trans_opts == get_options_for_model(S, model).ret IN
    IF option.items = << >> THEN option
    ELSE ListOption("list",
                    add_translation_fields_loop(trans_opts.fields,
                                                option.items, option.items))

\* The names an option of the admin of FileFieldsModel is written with
AdminNames == {"title", "file", "file2", "title_de", "title_en"}

NoRepeat(seq) ==
    \A j, k \in 1..Len(seq) : j # k => seq[j] # seq[k]

Options ==
    {NoneOption} \cup
    {ListOption(type, items) :
        type \in {"list", "tuple"},
        items \in {q \in UNION {[1..n -> AdminNames] : n \in 0..MaxLen} :
                      NoRepeat(q)}}

\* A ModelAdmin class is declared with the option
Declare(option) ==
    /\ last.op \in {"init", "add_translation_fields"}
    /\ last' = [Op("declare", << >>, "", NoneVal) EXCEPT !.ret = option]
    /\ UNCHANGED instvars
    /\ UNCHANGED regvars

\* self.add_translation_fields(option), on the option declared or on the
\* result of the call before
AddTranslationFields ==
    /\ last.op \in {"declare", "add_translation_fields"}
    /\ last.op = "add_translation_fields" => last.attr = "declared"
    /\ last' = [Op("add_translation_fields", last.ret.items,
                   IF last.op = "declare" THEN "declared" ELSE "result",
                   last.ret.type)
                EXCEPT !.ret = add_translation_fields(RegState, kls, last.ret)]
    /\ UNCHANGED instvars
    /\ UNCHANGED regvars

InitAdmin ==
    /\ lang = DEFAULT_LANGUAGE
    /\ kls = "FileFieldsModel"
    /\ LET S == register(EmptyRegState, kls,
                         "TestTranslationOptionsModelFileFields").st IN
       /\ registry = S.registry
       /\ meta = S.meta
       /\ clsattrs = S.clsattrs
       /\ hooks = S.hooks
       /\ optattrs = S.optattrs
       /\ regorder = S.order
    /\ objs = << >>
    /\ db = << >>
    /\ pc = "idle"
    /\ saving = NoInst
    /\ callerLang = NoLang
    /\ last = Op("init", << >>, "", NoneVal)
    /\ rt = NoRt
    /\ writes = 0
    /\ calls = 0

NextAdmin ==
    \/ \E option \in Options : Declare(option)
    \/ AddTranslationFields

SpecAdmin == InitAdmin /\ [][NextAdmin]_vars

-----------------------------------------------------------------------------
(* What the options of the instances' model configure as fallback *)

ModelFallbackValues == OptFallbackValues(registry[kls])

FallbackConfigured(a) ==
    \/ ModelFallbackValues.kind = "str"
    \/ ModelFallbackValues.kind = "dict" /\ a \in DOMAIN ModelFallbackValues.map

ConfiguredFallback(a) ==
    IF ModelFallbackValues.kind = "str" THEN ModelFallbackValues.val
    ELSE ModelFallbackValues.map[a]

\* The read rule for language l: the slot of l, else the fallback, else the
\* underlying slot
ReadRule(obj, a, l) ==
    IF Truthy(obj.loc[a][l]) THEN obj.loc[a][l]
    ELSE IF FallbackConfigured(a) THEN ConfiguredFallback(a)
    ELSE obj.orig[a]

-----------------------------------------------------------------------------
(* Claims *)

\* C1 (as stated): a write through the logical name while a non-default
\* language L is active stores the value in the slot of L and leaves the
\* underlying slot of the attribute unchanged.
C1_Original ==
    [][(last'.op = "set" /\ lang # DEFAULT_LANGUAGE) =>
          /\ objs'[last'.inst].loc[last'.attr][lang] = last'.val
          /\ objs'[last'.inst].orig[last'.attr] =
                 objs[last'.inst].orig[last'.attr]]_vars

\* C1 (amended): a write through the logical name while a non-default
\* language L is active stores the value in the slot of L and also in the
\* underlying slot of the attribute; the slot of the default language is
\* left unchanged.
C1_Amended ==
    [][(last'.op = "set" /\ lang # DEFAULT_LANGUAGE) =>
          /\ objs'[last'.inst].loc[last'.attr][lang] = last'.val
          /\ objs'[last'.inst].orig[last'.attr] = last'.val
          /\ objs'[last'.inst].loc[last'.attr][DEFAULT_LANGUAGE] =
                 objs[last'.inst].loc[last'.attr][DEFAULT_LANGUAGE]]_vars

\* A write under "en" has replaced the underlying value and left the value
\* of the default language in place
C1_Witness ==
    /\ last.op = "set" /\ lang = "en" /\ last.val = "b"
    /\ objs[last.inst].orig[last.attr] = "b"
    /\ objs[last.inst].loc[last.attr]["en"] = "b"
    /\ objs[last.inst].loc[last.attr][DEFAULT_LANGUAGE] = "a"

\* C2: a read through the logical name while a non-default language L is
\* active returns the slot of L when it is non-empty, otherwise the fallback
\* value configured for the attribute (one string for all attributes, the
\* empty string included, or the attribute's entry of a mapping), otherwise
\* the value of the underlying (default-language) slot.
C2_ReadNonDefault ==
    (last.op = "get" /\ lang # DEFAULT_LANGUAGE) =>
        last.val = ReadRule(objs[last.inst], last.attr, lang)

\* A read under "en" of an attribute with an empty slot returned the entry of
\* the fallback mapping, not the underlying value
C2_Witness ==
    /\ last.op = "get" /\ lang = "en" /\ last.val = Sorry
    /\ ~Truthy(objs[last.inst].loc[last.attr]["en"])
    /\ objs[last.inst].orig[last.attr] = "a"

C4_DefaultIsolation ==
    [][(last'.op = "set" /\ lang = DEFAULT_LANGUAGE) =>
          \A i \in DOMAIN objs, a \in Attrs,
             l \in AVAILABLE_LANGUAGES \ {DEFAULT_LANGUAGE} :
                objs'[i].loc[a][l] = objs[i].loc[a][l]]_vars

\* A write under the default language while the "en" slot of the attribute
\* holds another value on one of the two instances
C4_Witness ==
    /\ last.op = "set" /\ lang = DEFAULT_LANGUAGE /\ last.val = "b"
    /\ objs[last.inst].loc[last.attr][DEFAULT_LANGUAGE] = "b"
    /\ \E i \in DOMAIN objs : objs[i].loc[last.attr]["en"] = "a"

\* C5: after a write of a non-empty value v through the logical name of a
\* text attribute, a read through the logical name on the same instance under
\* the same language returns v, with no save in between.
C5_WriteThenRead ==
    (last.op = "set" /\ Truthy(last.val)) =>
        __get__(objs[last.inst], last.attr) = last.val

\* A write under "en" after a different value was written under "de"
C5_Witness ==
    /\ last.op = "set" /\ lang = "en" /\ last.val = "b"
    /\ objs[last.inst].loc[last.attr]["de"] = "a"
    /\ __get__(objs[last.inst], last.attr) = "b"

\* The read that ends a round trip: the attribute was written under language
\* rt.lang, the instance saved and reloaded, and rt.lang is active again
RoundTripRead ==
    /\ last.op = "get" /\ rt.phase = "reloaded"
    /\ last.inst = rt.inst /\ last.attr = rt.attr /\ lang = rt.lang

\* The value of the default language after the reload: its slot, else the
\* written value itself
DefaultValueAfter(obj, a, v) ==
    IF Truthy(obj.loc[a][DEFAULT_LANGUAGE]) THEN obj.loc[a][DEFAULT_LANGUAGE]
    ELSE v

C7_PinRestore ==
    [][last'.op = "post_save" => lang' = callerLang]_vars

\* A save invoked under "en" has returned, and "en" is active
C7_Witness ==
    last.op = "post_save" /\ lang = "en" /\ pc = "idle"

\* C8: when the persistence step of a save fails, the active language is the
\* language that was active before the save when control returns.
C8_RestoreOnFailure ==
    [][last'.op = "persist_failed" => lang' = callerLang]_vars

\* C9: pre-save runs from idle, records the caller's language and activates
\* the default language; the persistence step runs right after it, with the
\* default language active; post-save runs only after the persistence step.
C9_HookOrder ==
    [][/\ last'.op = "pre_save" =>
            (pc = "idle" /\ objs'[saving'].cur = lang
                /\ lang' = DEFAULT_LANGUAGE)
       /\ last'.op \in {"persist", "persist_failed"} =>
            (last.op = "pre_save" /\ lang = DEFAULT_LANGUAGE
                /\ objs[saving].cur = callerLang)
       /\ last'.op = "post_save" => (last.op = "persist" /\ pc' = "idle")]_vars

\* The persistence step is about to run for a save invoked under "en"
C9_Witness ==
    pc = "pre_save" /\ callerLang = "en" /\ lang = DEFAULT_LANGUAGE

\* C10: register for one model that is already in the registry raises
\* AlreadyRegistered and changes nothing: the registry and the stored options,
\* the fields and class attributes of the models and the connected handlers
\* are as before the call.
C10_AlreadyRegistered ==
    [][(/\ last'.op = "register" /\ Len(last'.inst) = 1
        /\ registry[last'.inst[1]] # NotIn) =>
          /\ last'.val = "AlreadyRegistered"
          /\ UNCHANGED <<registry, meta, clsattrs, hooks, optattrs>>]_vars

\* A register call for a registered model, with other options than the
\* stored ones, has raised AlreadyRegistered
C10_Witness ==
    /\ last.op = "register" /\ Len(last.inst) = 1
    /\ last.val = "AlreadyRegistered"
    /\ registry[last.inst[1]] \notin {NotIn, last.attr}

\* The registration state after the step
RegStateNext ==
    [registry |-> registry', meta |-> meta', clsattrs |-> clsattrs',
     hooks |-> hooks', optattrs |-> optattrs', order |-> regorder']

\* C11: unregister for one model that is not in the registry raises
\* NotRegistered and leaves the registry as it was; for a model that is in the
\* registry it removes the entry of that model and of no other, and a
\* get_options_for_model call for that model then raises or returns options
\* other than the removed ones.
C11_Unregister ==
    [][(last'.op = "unregister" /\ Len(last'.inst) = 1) =>
         LET model == last'.inst[1] IN
         IF registry[model] = NotIn
         THEN last'.val = "NotRegistered" /\ UNCHANGED registry
         ELSE /\ last'.val = NoExc
              /\ registry' = [registry EXCEPT ![model] = NotIn]
              /\ LET r == get_options_for_model(RegStateNext, model) IN
                 r.exc = NoExc => r.ret.name # registry[model]]_vars

\* A registered model has been unregistered while another model stays
\* registered
C11_Witness ==
    /\ last.op = "unregister" /\ Len(last.inst) = 1 /\ last.val = NoExc
    /\ registry[last.inst[1]] = NotIn
    /\ \E m \in Models : registry[m] # NotIn

\* The parents of the model that are in the registry, in the order of
\* model._meta.parents
RegisteredParents(model) ==
    {k \in 1..Len(Parents(model)) : registry[Parents(model)[k]] # NotIn}

\* C12: get_options_for_model for a model that is not in the registry, one of
\* whose parents is registered with attribute a among its fields, returns
\* options whose fields contain a and whose mappings give a the parent's
\* localized names and each of those names a; the call changes neither the
\* registry nor anything else registration has set up, at every repetition.
C12_InheritedOptions ==
    [][(last'.op = "get_options" /\ registry[last'.inst[1]] = NotIn) =>
         /\ UNCHANGED <<registry, meta, clsattrs, hooks, optattrs>>
         /\ \A k \in RegisteredParents(last'.inst[1]) :
              LET trans_opts == registry[Parents(last'.inst[1])[k]]
                  ret == last'.ret
              IN  \A a \in {OptFields(trans_opts)[j] :
                               j \in 1..Len(OptFields(trans_opts))} :
                    /\ last'.val = NoExc
                    /\ a \in ret.fields
                    /\ ret.localized_fieldnames[a] =
                         optattrs[trans_opts].localized_fieldnames[a]
                    /\ \A j \in 1..Len(ret.localized_fieldnames[a]) :
                         ret.localized_fieldnames_rev[
                             ret.localized_fieldnames[a][j]] = a]_vars

\* get_options_for_model has answered for MultitableModelD, which is not
\* registered, from its registered parent MultitableModelB
C12_Witness ==
    /\ last.op = "get_options" /\ last.inst = <<"MultitableModelD">>
    /\ registry["MultitableModelD"] = NotIn
    /\ registry["MultitableModelB"] # NotIn
    /\ last.val = NoExc
    /\ "titleb" \in last.ret.fields

\* The ancestors of the model, at every level, that are in the registry
RegisteredAncestors(model) ==
    {c \in Mro(model) \ {model} : registry[c] # NotIn}

\* C13: get_options_for_model for a model that is not in the registry returns
\* options that contain the fields and the forward and reverse mappings of
\* every registered ancestor of the model, those more than one level above
\* included.
C13_AllAncestors ==
    [][(last'.op = "get_options" /\ registry[last'.inst[1]] = NotIn) =>
         \A c \in RegisteredAncestors(last'.inst[1]) :
           LET theirs == OptionsOf(RegState, registry[c]) IN
           \A a \in theirs.fields :
             /\ last'.val = NoExc
             /\ a \in last'.ret.fields
             /\ last'.ret.localized_fieldnames[a] =
                  theirs.localized_fieldnames[a]
             /\ \A j \in 1..Len(theirs.localized_fieldnames[a]) :
                  last'.ret.localized_fieldnames_rev[
                      theirs.localized_fieldnames[a][j]] = a]_vars

\* The registered parents of the model whose options map the key, forward
\* (attr = "localized_fieldnames") or in reverse
ParentsWithKey(model, attr, key) ==
    {k \in RegisteredParents(model) :
        LET theirs == OptionsOf(RegState, registry[Parents(model)[k]]) IN
        attr \in DOMAIN theirs /\ key \in DOMAIN theirs[attr]}

\* Of the parents at these positions, the one register stored first
FirstRegistered(model, ks) ==
    LET pos(p) == CHOOSE j \in 1..Len(regorder) : regorder[j] = p
        k == CHOOSE k \in ks :
                 \A k2 \in ks : pos(Parents(model)[k]) <= pos(Parents(model)[k2])
    IN  Parents(model)[k]

\* Of the parents at these positions, the one model._meta.parents lists last
LastListed(model, ks) ==
    Parents(model)[CHOOSE k \in ks : \A k2 \in ks : k2 <= k]

\* C14 as claimed: when get_options_for_model builds options from several
\* registered parents whose mappings share a key, the entry it keeps under
\* that key is the one of the parent that was registered first.
C14_Original ==
    [][(/\ last'.op = "get_options" /\ registry[last'.inst[1]] = NotIn
        /\ last'.val = NoExc) =>
         \A attr \in {"localized_fieldnames", "localized_fieldnames_rev"} :
           \A key \in DOMAIN last'.ret[attr] :
             LET ks == ParentsWithKey(last'.inst[1], attr, key) IN
             Cardinality(ks) > 1 =>
               last'.ret[attr \o "_from"][key] =
                   FirstRegistered(last'.inst[1], ks)]_vars

\* C14 as the code has it: under a key that several registered parents share
\* the entry kept is the one of the parent that model._meta.parents lists
\* last, whatever the order of registration, and it equals the entry of every
\* parent that has the key.
C14_Amended ==
    [][(/\ last'.op = "get_options" /\ registry[last'.inst[1]] = NotIn
        /\ last'.val = NoExc) =>
         \A attr \in {"localized_fieldnames", "localized_fieldnames_rev"} :
           \A key \in DOMAIN last'.ret[attr] :
             LET ks == ParentsWithKey(last'.inst[1], attr, key) IN
             Cardinality(ks) > 1 =>
               /\ last'.ret[attr \o "_from"][key] =
                      LastListed(last'.inst[1], ks)
               /\ \A k \in ks :
                    last'.ret[attr][key] =
                      OptionsOf(RegState,
                          registry[Parents(last'.inst[1])[k]])[attr][key]]_vars

\* Options have been built for TwoParentsModel from its two parents, which
\* share the key title, the parent listed first having been registered first
C14_Witness ==
    /\ last.op = "get_options" /\ last.inst = <<"TwoParentsModel">>
    /\ last.val = NoExc
    /\ regorder = <<"TestModel", "FallbackTestModel">>
    /\ Cardinality(ParentsWithKey("TwoParentsModel", "localized_fieldnames",
                                  "title")) = 2
    /\ last.ret.localized_fieldnames_from["title"] = "FallbackTestModel"

\* C15: get_options_for_model for a model that is not in the registry and
\* none of whose parents is registered with any field to translate raises
\* NotRegistered and returns no options.
C15_NotRegistered ==
    [][(/\ last'.op = "get_options" /\ registry[last'.inst[1]] = NotIn
        /\ \A k \in RegisteredParents(last'.inst[1]) :
              OptFields(registry[Parents(last'.inst[1])[k]]) = << >>) =>
         /\ last'.val = "NotRegistered"
         /\ last'.ret = NoOptions]_vars

\* get_options_for_model has raised NotRegistered for TwoParentsModel, whose
\* only registered parent has options without fields
C15_Witness ==
    /\ last.op = "get_options" /\ last.inst = <<"TwoParentsModel">>
    /\ registry["FallbackTestModel"] = "NoFieldsOptions"
    /\ registry["TestModel"] = NotIn
    /\ last.val = "NotRegistered"

\* The names <logical name>_<language code>, one per language of LANGUAGES
\* and in its order
NamesPerLanguage(a) ==
    [k \in 1..Len(LANGUAGES) |-> a \o "_" \o LANGUAGES[k]]

\* C16: after a register call that raised nothing, the options stored for
\* each model of the call have localized_fieldnames mapping every field of the
\* options, and nothing else, to the names <field>_<language>, one per
\* language of LANGUAGES and in its order, and localized_fieldnames_rev
\* mapping a name p to the field a exactly when p is in localized_fieldnames[a].
C16_FieldnameMaps ==
    [][(last'.op = "register" /\ last'.val = NoExc) =>
         \A k \in 1..Len(last'.inst) :
           LET opts == OptionsOf(RegStateNext, registry'[last'.inst[k]])
               names(a) == {opts.localized_fieldnames[a][j] :
                               j \in 1..Len(opts.localized_fieldnames[a])}
           IN
           /\ registry'[last'.inst[k]] = last'.attr
           /\ DOMAIN opts.localized_fieldnames = opts.fields
           /\ \A a \in opts.fields :
                opts.localized_fieldnames[a] = NamesPerLanguage(a)
           /\ DOMAIN opts.localized_fieldnames_rev =
                UNION {names(a) : a \in opts.fields}
           /\ \A p \in DOMAIN opts.localized_fieldnames_rev :
                \A a \in opts.fields :
                  opts.localized_fieldnames_rev[p] = a <=> p \in names(a)]_vars

\* The file field model has been registered: text and file fields both have
\* their mappings
C16_Witness ==
    /\ last.op = "register" /\ last.val = NoExc
    /\ last.inst = <<"FileFieldsModel">>
    /\ optattrs[registry["FileFieldsModel"]].localized_fieldnames["file"] =
         <<"file_de", "file_en">>

\* The positions in the fields of the options at which the model has a field
\* of a kind that is not supported
UnsupportedAt(model, translation_opts) ==
    {k \in 1..Len(OptFields(translation_opts)) :
        FieldKind(model, OptFields(translation_opts)[k]) \notin
            SUPPORTED_FIELDS \cup CUSTOM_FIELDS}

\* The localized names of the first n fields of the options, in the order
\* add_localized_fields creates them
NamesOfFirst(translation_opts, n) ==
    [k \in 1..(n * Len(LANGUAGES)) |->
        NamesPerLanguage(OptFields(translation_opts)[
            ((k - 1) \div Len(LANGUAGES)) + 1])[((k - 1) % Len(LANGUAGES)) + 1]]

\* C17 as claimed: register for a model that is not registered, with options
\* that list a field of an unsupported kind at any position, raises
\* ImproperlyConfigured and no field has been added to the model.
C17_Original ==
    [][(/\ last'.op = "register" /\ Len(last'.inst) = 1
        /\ registry[last'.inst[1]] = NotIn
        /\ UnsupportedAt(last'.inst[1], last'.attr) # {}) =>
         /\ last'.val = "ImproperlyConfigured"
         /\ meta' = meta]_vars

\* C17 as the code has it: the call raises ImproperlyConfigured when it
\* reaches the first field of an unsupported kind; no field has been added
\* for that field or for a field listed after it, and the fields listed
\* before it have their localized fields added, one per language, which stay
\* on the model. Nothing is added when the unsupported field is listed first.
C17_Amended ==
    [][(/\ last'.op = "register" /\ Len(last'.inst) = 1
        /\ registry[last'.inst[1]] = NotIn
        /\ UnsupportedAt(last'.inst[1], last'.attr) # {}) =>
         LET model == last'.inst[1]
             first == CHOOSE k \in UnsupportedAt(model, last'.attr) :
                         \A k2 \in UnsupportedAt(model, last'.attr) : k <= k2
         IN
         /\ last'.val = "ImproperlyConfigured"
         /\ meta' = [meta EXCEPT ![model] =
                        @ \o NamesOfFirst(last'.attr, first - 1)]]_vars

\* Registering User with the unsupported field listed last has raised after
\* the localized fields of username were added
C17_Witness ==
    /\ last.op = "register" /\ last.inst = <<"User">>
    /\ last.attr = "UserOptionsKindLast"
    /\ last.val = "ImproperlyConfigured"
    /\ meta["User"] = <<"username", "is_active", "username_de", "username_en">>

\* The names add_localized_fields is to add for the options that the model
\* already has, as a field of model._meta or as an attribute of the class
NamesTaken(model, translation_opts) ==
    {name \in {NamesOfFirst(translation_opts,
                            Len(OptFields(translation_opts)))[k] :
                 k \in 1..(Len(OptFields(translation_opts)) * Len(LANGUAGES))} :
        \/ \E j \in 1..Len(meta[model]) : meta[model][j] = name
        \/ hasattr(RegState, model, name)}

\* C18: register for a model that is not registered, with options of
\* supported kinds one of whose localized names the model already has (a
\* localized field an earlier registration added included), raises ValueError
\* and the model keeps the fields and class attributes it had under the names
\* taken, with no second field of such a name.
C18_DuplicateField ==
    [][(/\ last'.op = "register" /\ Len(last'.inst) = 1
        /\ registry[last'.inst[1]] = NotIn
        /\ UnsupportedAt(last'.inst[1], last'.attr) = {}
        /\ NamesTaken(last'.inst[1], last'.attr) # {}) =>
         LET model == last'.inst[1] IN
         /\ last'.val = "ValueError"
         /\ \A name \in NamesTaken(model, last'.attr) :
              /\ Cardinality({j \in 1..Len(meta'[model]) :
                                 meta'[model][j] = name}) =
                 Cardinality({j \in 1..Len(meta[model]) :
                                 meta[model][j] = name})
              /\ name \in DOMAIN clsattrs[model] =>
                   clsattrs'[model][name] = clsattrs[model][name]]_vars

\* C19: reading on the model class an attribute that the options registered
\* for the model list among their fields raises and hands out no value:
\* ValueError for a text field, AttributeError for a file or image field.
C19_ClassAccess ==
    [][(/\ last'.op = "class_get"
        /\ registry[last'.inst[1]] # NotIn
        /\ UnsupportedAt(last'.inst[1], registry[last'.inst[1]]) = {}
        /\ last'.attr \in OptionsOf(RegState, registry[last'.inst[1]]).fields)
         =>
         /\ last'.val =
              IF FieldKind(last'.inst[1], last'.attr) \in
                     {"FileField", "ImageField"}
              THEN "AttributeError" ELSE "ValueError"
         /\ last'.ret = NoAttr]_vars

\* The translated text attribute title of the registered FileFieldsModel has
\* been read on the class
C19_Witness ==
    /\ last.op = "class_get" /\ last.inst = <<"FileFieldsModel">>
    /\ last.attr = "title"
    /\ registry["FileFieldsModel"] # NotIn
    /\ last.val = "ValueError"

\* The translated image attribute of the registered FileFieldsModel has been
\* read on the class
C19_WitnessImage ==
    /\ last.op = "class_get" /\ last.inst = <<"FileFieldsModel">>
    /\ last.attr = "image"
    /\ registry["FileFieldsModel"] # NotIn
    /\ last.val = "AttributeError"

\* The field a query on the translatable field a is made on under language l
PhysicalValue(row, a, l) ==
    IF l = DEFAULT_LANGUAGE THEN row.orig[a] ELSE row.loc[a][l]

\* C20: a filter on the translatable field a, with or without a lookup type,
\* under the active language l selects exactly the instances whose
\* translation field for l (the field a itself when l is the default
\* language) matches the value; a filter on a key that names a translation
\* field selects by that field under every language; and neither a filter nor
\* a change of the active language changes a stored row.
C20_QueryEquivalence ==
    [][/\ last'.op = "filter" =>
            LET key == last'.ret.key
                lookup_type == IF Len(key) > 1 THEN key[2] ELSE "exact"
            IN
            /\ db' = db /\ lang' = lang
            /\ key[1] \in Attrs =>
                 last'.ret.pks =
                   {i \in DOMAIN db :
                       Matches(lookup_type,
                               PhysicalValue(db[i], key[1], lang), last'.val)}
            /\ \A a \in Attrs, l \in AVAILABLE_LANGUAGES :
                 key[1] = a \o "_" \o l =>
                   last'.ret.pks =
                     {i \in DOMAIN db :
                         Matches(lookup_type, db[i].loc[a][l], last'.val)}
       /\ last'.op = "activate" => db' = db]_vars

\* Under "en" a filter on title with contains has selected instances, and not
\* those the same filter selects under the default language
C20_Witness ==
    /\ last.op = "filter" /\ last.ret.key = <<"title", "contains">>
    /\ last.ret.lang = "en"
    /\ last.ret.pks # {}
    /\ last.ret.pks #
         {i \in DOMAIN db :
             Matches("contains", PhysicalValue(db[i], "title", "de"), last.val)}

AllNamesAdded(model, translation_opts) ==
    /\ OptFields(translation_opts) # << >>
    /\ \A k \in 1..(Len(OptFields(translation_opts)) * Len(LANGUAGES)) :
         \E j \in 1..Len(meta[model]) :
            meta[model][j] = NamesOfFirst(translation_opts,
                                          Len(OptFields(translation_opts)))[k]

\* C22: unregister changes nothing but the registry: the fields of every
\* model, the class attributes, the connected handlers and the attributes of
\* the options stay; and register for a model that is not in the registry and
\* that still has every localized field of the options from an earlier
\* registration raises ValueError instead of returning normally.
C22_UnregisterKeepsFields ==
    [][/\ last'.op = "unregister" =>
            /\ meta' = meta /\ clsattrs' = clsattrs
            /\ hooks' = hooks /\ optattrs' = optattrs
       /\ (/\ last'.op = "register" /\ Len(last'.inst) = 1
           /\ registry[last'.inst[1]] = NotIn
           /\ UnsupportedAt(last'.inst[1], last'.attr) = {}
           /\ AllNamesAdded(last'.inst[1], last'.attr)) =>
            /\ last'.val = "ValueError"
            /\ registry'[last'.inst[1]] = NotIn]_vars

\* The (field, language) pairs of the options, counted in the order of
\* add_localized_fields, at which the synthesis raises for the model: the
\* field is of an unsupported kind or the localized name reads on the class
SynthesisFailsAt(model, translation_opts) ==
    LET n == Len(OptFields(translation_opts)) IN
    {k \in 1..(n * Len(LANGUAGES)) :
        \/ ((k - 1) \div Len(LANGUAGES)) + 1 \in
               UnsupportedAt(model, translation_opts)
        \/ hasattr(RegState, model, NamesOfFirst(translation_opts, n)[k])}

\* C23: when register for one model that is not registered raises while it
\* adds localized fields, the localized field of every (field, language) pair
\* before the pair it raised at is a field of the model after the call, in
\* the order of creation behind the fields the model had, and the class
\* attributes set for them stay.
C23_NoRollback ==
    [][(/\ last'.op = "register" /\ Len(last'.inst) = 1
        /\ registry[last'.inst[1]] = NotIn
        /\ last'.val \in {"ImproperlyConfigured", "ValueError"}) =>
         LET model == last'.inst[1]
             n == Len(OptFields(last'.attr))
             fails == SynthesisFailsAt(model, last'.attr)
         IN
         /\ fails # {}
         /\ \E k \in fails :
              /\ \A k2 \in fails : k <= k2
              /\ Len(meta'[model]) = Len(meta[model]) + (k - 1)
              /\ \A j \in 1..(k - 1) :
                   /\ meta'[model][Len(meta[model]) + j] =
                        NamesOfFirst(last'.attr, n)[j]
                   /\ NamesOfFirst(last'.attr, n)[j] \in
                        DOMAIN clsattrs[model] =>
                          NamesOfFirst(last'.attr, n)[j] \in
                              DOMAIN clsattrs'[model]
              /\ \A j \in 1..Len(meta[model]) :
                   meta'[model][j] = meta[model][j]]_vars

\* A registration of User has raised at its third pair: the two localized
\* fields of username are the last fields of User, none exists for is_active
C23_Witness ==
    /\ last.op = "register" /\ last.inst = <<"User">>
    /\ last.val = "ImproperlyConfigured"
    /\ Len(meta["User"]) >= 2
    /\ meta["User"][Len(meta["User"]) - 1] = "username_de"
    /\ meta["User"][Len(meta["User"])] = "username_en"

\* The model is in the registry with options that register has set no
\* localized_fieldnames on: a registration that raised in the synthesis
HalfRegistered(model) ==
    /\ registry[model] # NotIn
    /\ "localized_fieldnames" \notin DOMAIN optattrs[registry[model]]

C25_FileRoundTrip ==
    [][(/\ last'.op = "file_get"
        /\ rt.phase = "written"
        /\ rt.inst = last'.inst /\ rt.attr = last'.attr) =>
         IF lang = rt.lang
         THEN last'.ret.name = rt.val
         ELSE last'.ret.name =
                objs[last'.inst][
                    build_localized_fieldname(last'.attr, lang)].name]_vars

\* C26: a read of a file or image field through its name finds the slot of
\* the active language holding None or a path string, and then returns a new
\* handle of the field's attr_class (FieldFile, ImageFieldFile for an image)
\* around that value and leaves this handle in the slot, changing no other
\* slot; or it finds a handle there, and then returns that handle and changes
\* nothing. A read that follows a read of the same field with nothing in
\* between returns the handle the first read returned.
C26_LazyWrap ==
    [][last'.op = "file_get" =>
         LET d == objs[last'.inst]
             slot == build_localized_fieldname(last'.attr, lang)
             file == d[slot]
         IN
         /\ IF IsHandle(file)
            THEN /\ last'.ret = file
                 /\ objs' = objs
            ELSE /\ last'.ret.kind = attr_class(kls, last'.attr)
                 /\ last'.ret.name = file.name
                 /\ objs' = [objs EXCEPT ![last'.inst][slot] = last'.ret]
         /\ IsHandle(objs'[last'.inst][slot])
         /\ (/\ last.op = "file_get" /\ last.inst = last'.inst
             /\ last.attr = last'.attr) =>
              /\ last'.ret = last.ret
              /\ objs' = objs]_vars

\* A read has returned the handle around "old" that a read before the last
\* write had left in the slot
C26_Witness ==
    /\ last.op = "file_get"
    /\ IsHandle(last.ret) /\ last.ret.name = "old"
    /\ last.ret.id < writes + 1
    /\ objs[last.inst][build_localized_fieldname(last.attr, lang)] = last.ret

\* C27: a write through the logical name of a text attribute under the active
\* language l leaves the translation field of every other language as it was,
\* for every attribute of the instance written to, and puts the value into
\* the translation field of l.
C27_WriteIsolation ==
    [][last'.op = "set" =>
         /\ objs'[last'.inst].loc[last'.attr][lang] = last'.val
         /\ \A a \in Attrs, l2 \in AVAILABLE_LANGUAGES :
              (l2 # lang \/ a # last'.attr) =>
                 objs'[last'.inst].loc[a][l2] = objs[last'.inst].loc[a][l2]]_vars

\* A write of "a" under "en" while the translation field for "de" holds "b"
C27_Witness ==
    /\ last.op = "set" /\ lang = "en" /\ last.val = "a"
    /\ objs[last.inst].loc[last.attr]["en"] = "a"
    /\ objs[last.inst].loc[last.attr]["de"] = "b"

\* C28: when the outermost save of an instance returns and save was called
\* again for the same instance before that, from inside it, the active
\* language is the one that was active when the outermost save was called.
C28_NestedRestore ==
    [][(/\ last'.op = "post_save" /\ pc' = << >>
        /\ last'.ret.reentered) =>
         lang' = callerLang]_vars

\* C29: when the save of a thread returns while the other thread is inside a
\* save that it entered under a different language, on the same instance or
\* on another, the language of the returning thread is the one it had when
\* it called save.
C29_ThreadRestore ==
    [][\A t \in Threads : \A u \in Threads \ {t} :
         (/\ last'.op = "post_save" /\ last'.attr = t
          /\ pc[u] # "idle"
          /\ callerLang[u] # callerLang[t]) =>
            lang'[t] = callerLang[t]]_vars

\* The names of the fields the options registered for the model list, and
\* the names of their translation fields
RegisteredNames == OptionsOf(RegState, registry[kls]).fields

LocalizedNames ==
    {build_localized_fieldname(f, l) :
        f \in RegisteredNames, l \in AVAILABLE_LANGUAGES}

\* The list with every registered name followed by its translation fields
RECURSIVE Expanded(_)
Expanded(items) ==
    IF items = << >> THEN << >>
    ELSE (IF Head(items) \in RegisteredNames
          THEN get_translation_fields(Head(items))
          ELSE <<Head(items)>>) \o Expanded(Tail(items))

====
